---- MODULE Spec2Model ----
(***************************************************************************)
(* AVM2 object model of ruffle (core/src/avm2): property storage of        *)
(* ScriptObjectData, lazy trait installation and the chained get/set of    *)
(* TObject, over a small fixed heap of objects.                            *)
(***************************************************************************)
EXTENDS Integers, Sequences, FiniteSets, TLC

VARIABLES values, slots, methods, enumerants, installs, last, stack, defs, exported,
          storage, sounds, playing, action_queue, issued

vars == <<values, slots, methods, enumerants, installs, last, stack, defs, exported,
          storage, sounds, playing, action_queue, issued>>

objectVars == <<values, slots, methods, enumerants, installs>>
domainVars == <<defs, exported>>
byteVars == <<storage>>
audioVars == <<sounds, playing, action_queue, issued>>

(***************************************************************************)
(* Bounds of the model.                                                    *)
(***************************************************************************)
\* longest enumerant list a run may build
MaxEnumerants == 2
\* most times one trait may be installed on one object in a run
MaxInstalls == 2
\* most property accesses nested in one another
MaxDepth == 3

(***************************************************************************)
(* Values.  Every value is a record of the same shape.                     *)
(***************************************************************************)
Undefined == [t |-> "undef", v |-> "", recv |-> ""]
NoneV == [t |-> "none", v |-> "", recv |-> ""]
Prim(s) == [t |-> "prim", v |-> s, recv |-> ""]
\* a function object made from method m, bound to receiver r ("" = unbound)
FnObj(m, r) == [t |-> "fn", v |-> m, recv |-> r]
\* an object that is not a function
PlainObj == [t |-> "obj", v |-> "plain", recv |-> ""]
ClassObj(c) == [t |-> "class", v |-> c, recv |-> ""]
\* the value produced by running getter f with this = r
Called(f, r) == [t |-> "call", v |-> f.v, recv |-> IF f.recv # "" THEN f.recv ELSE r]

AsExecutable(f) == f.t = "fn"

PrimValues == {Prim("V1"), Prim("V2")}

(***************************************************************************)
(* Names.                                                                  *)
(***************************************************************************)
QName(ns, l) == [ns |-> ns, local |-> l]

nx == QName("public", "x")
ng == QName("public", "g")
nc == QName("public", "c")
nm == QName("public", "m")
nK == QName("public", "K")
nKC == QName("public", "KC")
nf == QName("public", "f")
np == QName("public", "p")
np1 == QName("ns1", "p")
nq == QName("public", "q")
nS == QName("public", "S")
nT == QName("public", "T")
nU == QName("public", "U")
nObject == QName("public", "Object")
n0ns == QName("ns1", "0")
nACTIVATE == QName("public", "ACTIVATE")
ny == QName("public", "y")
NoName == QName("", "")

Names ==
    {nx, ng, nc, nm, nK, nKC, nf, np, np1, nq, nS, nT, nU, nObject, n0ns, nACTIVATE, ny}

(***************************************************************************)
(* The heap: an instance d of class Derived, the instance prototypes PD    *)
(* (Derived) and PB (Base), the class constructor CC of Derived, and the    *)
(* class constructor L of Lib, whose class traits are the classes S, T     *)
(* (extends S) and U (extends T) and which is on its own scope chain, and  *)
(* the bare object H, without class and without prototype.                 *)
(***************************************************************************)
NoObj == "none"
Objects == {"d", "PD", "PB", "CC", "L", "H"}

\* e is an object made by ScriptObject::object with the instance d as its
\* prototype; only its prototype link and its class are looked at
Proto(o) == CASE o = "d" -> "PD" [] o = "PD" -> "PB" [] o = "e" -> "d" [] OTHER -> NoObj

ClassOf(o) ==
    CASE o = "PD" -> [kind |-> "InstancePrototype", class |-> "Derived"]
      [] o = "PB" -> [kind |-> "InstancePrototype", class |-> "Base"]
      [] o = "CC" -> [kind |-> "ClassConstructor", class |-> "Derived"]
      [] o = "L" -> [kind |-> "ClassConstructor", class |-> "Lib"]
      [] OTHER -> [kind |-> "NoClass", class |-> ""]

Trait(n, k, id, dv, m, c) ==
    [name |-> n, kind |-> k, id |-> id, default |-> dv, method |-> m, class |-> c]

\* Trait::from_slot
FromSlot(name, default_value) == Trait(name, "Slot", 0, default_value, "", "")

\* Trait::from_const
FromConst(name, default_value) == Trait(name, "Slot", 0, default_value, "", "")

InstanceTraits(c) ==
    CASE c = "Base" -> << Trait(nx, "Slot", 1, Prim("V1"), "", ""),
                          Trait(ng, "Getter", 0, Undefined, "get_g", "") >>
      [] c = "Derived" -> << Trait(ng, "Setter", 0, Undefined, "set_g", ""),
                             Trait(nc, "Const", 2, Prim("V2"), "", ""),
                             Trait(nm, "Method", 1, Undefined, "m_body", ""),
                             Trait(ny, "Slot", 1, Prim("V2"), "", "") >>
      [] OTHER -> << >>

ClassTraits(c) ==
    CASE c = "Derived" -> << Trait(nK, "Class", 0, Undefined, "", "KC"),
                             Trait(nf, "Function", 0, Undefined, "f_body", ""),
                             FromConst(nACTIVATE, Prim("activate")) >>
      [] c = "Lib" -> << Trait(nU, "Class", 0, Undefined, "", "U"),
                         Trait(nT, "Class", 0, Undefined, "", "T"),
                         Trait(nS, "Class", 0, Undefined, "", "S") >>
      [] OTHER -> << >>

\* Class::name of the class a Class trait holds
ClassName(c) == CASE c = "KC" -> nKC [] OTHER -> QName("public", c)

\* Class::super_class_name: the classes form a DAG, U -> T -> S
SuperClassName(c) == CASE c = "U" -> nT [] c = "T" -> nS [] OTHER -> NoName

\* the objects of the scope an object's class was declared in, innermost first
ScopeOf(o) == IF o = "L" THEN <<"L">> ELSE << >>

Classes == {"Base", "Derived", "Lib"}

Range(s) == {s[i] : i \in 1..Len(s)}

AllTraits == UNION {Range(InstanceTraits(c)) \cup Range(ClassTraits(c)) : c \in Classes}

\* Class::lookup_instance_traits / lookup_class_traits: the traits of that name,
\* in declaration order
LookupInstanceTraits(c, name) == SelectSeq(InstanceTraits(c), LAMBDA tr : tr.name = name)
LookupClassTraits(c, name) == SelectSeq(ClassTraits(c), LAMBDA tr : tr.name = name)
HasInstanceTrait(c, name) == \E tr \in Range(InstanceTraits(c)) : tr.name = name
HasClassTrait(c, name) == \E tr \in Range(ClassTraits(c)) : tr.name = name

(***************************************************************************)
(* Property (avm2/property.rs) and Slot (avm2/slot.rs).                    *)
(***************************************************************************)
Absent == [kind |-> "Absent", value |-> Undefined, attrs |-> {}, slot_id |-> 0,
           get |-> NoneV, set |-> NoneV]
NewStored(v) == [Absent EXCEPT !.kind = "Stored", !.value = v, !.attrs = {"DontDelete"}]
NewConst(v) ==
    [Absent EXCEPT !.kind = "Stored", !.value = v, !.attrs = {"ReadOnly", "DontDelete"}]
NewDynamicProperty(v) == [Absent EXCEPT !.kind = "Stored", !.value = v]
NewMethod(f) ==
    [Absent EXCEPT !.kind = "Stored", !.value = f, !.attrs = {"ReadOnly", "DontDelete"}]
NewVirtual == [Absent EXCEPT !.kind = "Virtual", !.attrs = {"ReadOnly", "DontDelete"}]
NewSlotProp(id) == [Absent EXCEPT !.kind = "Slot", !.slot_id = id, !.attrs = {"DontDelete"}]

PropSlotId(p) == IF p.kind = "Slot" THEN p.slot_id ELSE -1
CanDelete(p) == "DontDelete" \notin p.attrs

VacantSlot == [occ |-> FALSE, value |-> Undefined, ro |-> FALSE]
SlotNew(v) == [occ |-> TRUE, value |-> v, ro |-> FALSE]
SlotNewConst(v) == [occ |-> TRUE, value |-> v, ro |-> TRUE]

(***************************************************************************)
(* Results of an operation on the heap h: the heap after it, the value     *)
(* returned, the error ("" = Ok) and the accessor call it made, if any.    *)
(***************************************************************************)
NoCall == [fn |-> NoneV, this |-> "", arg |-> Undefined]
Res(h, ret, err, call) == [h |-> h, ret |-> ret, err |-> err, call |-> call]
Ok(h) == Res(h, Undefined, "", NoCall)
OkV(h, v) == Res(h, v, "", NoCall)
Err(h, msg) == Res(h, Undefined, msg, NoCall)

ResizeTo(seq, n, fill) ==
    IF Len(seq) < n THEN seq \o [i \in 1..(n - Len(seq)) |-> fill] ELSE seq

SetVal(h, o, name, p) == [h EXCEPT !.values[o][name] = p]

BoolV(b) == Prim(IF b THEN "true" ELSE "false")

\* Slot::get / Slot::set / Slot::init
SlotGet(s) == IF s.occ THEN s.value ELSE NoneV
SlotSet(s, v) ==
    IF ~s.occ THEN [slot |-> s, err |-> "vacant slot"]
    ELSE IF s.ro THEN [slot |-> s, err |-> "read-only slot"]
    ELSE [slot |-> [s EXCEPT !.value = v], err |-> ""]
SlotInit(s, v) ==
    IF ~s.occ THEN [slot |-> s, err |-> "vacant slot"]
    ELSE [slot |-> [s EXCEPT !.value = v], err |-> ""]

\* Property::install_virtual_getter / install_virtual_setter
InstallVirtualGetter(p, f) ==
    IF p.kind = "Virtual" THEN [prop |-> [p EXCEPT !.get = f], err |-> ""]
    ELSE [prop |-> p, err |-> "Not a virtual property"]
InstallVirtualSetter(p, f) ==
    IF p.kind = "Virtual" THEN [prop |-> [p EXCEPT !.set = f], err |-> ""]
    ELSE [prop |-> p, err |-> "Not a virtual property"]

(***************************************************************************)
(* ScriptObjectData (avm2/object/script_object.rs).                        *)
(***************************************************************************)
GetSlot(h, o, id) ==
    IF id + 1 > Len(h.slots[o]) THEN Err(h, "Slot index out of bounds")
    ELSE LET g == SlotGet(h.slots[o][id + 1])
         IN  OkV(h, IF g = NoneV THEN Undefined ELSE g)

SetSlot(h, o, id, v) ==
    IF id + 1 > Len(h.slots[o]) THEN Err(h, "Slot index out of bounds")
    ELSE LET r == SlotSet(h.slots[o][id + 1], v)
         IN  Res([h EXCEPT !.slots[o][id + 1] = r.slot], Undefined, r.err, NoCall)

InitSlot(h, o, id, v) ==
    IF id + 1 > Len(h.slots[o]) THEN Err(h, "Slot index out of bounds")
    ELSE LET r == SlotInit(h.slots[o][id + 1], v)
         IN  Res([h EXCEPT !.slots[o][id + 1] = r.slot], Undefined, r.err, NoCall)

\* Property::get, on the property p of object o
PropGet(h, o, p, receiver) ==
    CASE p.kind = "Virtual" ->
            IF p.get # NoneV THEN OkV(h, Called(p.get, receiver)) ELSE OkV(h, Undefined)
      [] p.kind = "Stored" -> OkV(h, p.value)
      [] p.kind = "Slot" -> GetSlot(h, o, p.slot_id)
      [] OTHER -> OkV(h, Undefined)

\* Property::set on a Virtual or Stored property p of object o
PropSet(h, o, name, p, receiver, v) ==
    CASE p.kind = "Virtual" ->
            IF p.set # NoneV
            THEN Res(h, Undefined, "",
                     [fn |-> p.set,
                      this |-> IF p.set.recv # "" THEN p.set.recv ELSE receiver,
                      arg |-> v])
            ELSE Ok(h)
      [] p.kind = "Stored" ->
            IF "ReadOnly" \in p.attrs THEN Ok(h)
            ELSE Ok(SetVal(h, o, name, [p EXCEPT !.value = v]))
      [] OTHER -> SetSlot(h, o, p.slot_id, v)

\* Property::init on a Virtual or Stored property p of object o
PropInit(h, o, name, p, receiver, v) ==
    CASE p.kind = "Virtual" ->
            IF p.set # NoneV
            THEN Res(h, Undefined, "",
                     [fn |-> p.set,
                      this |-> IF p.set.recv # "" THEN p.set.recv ELSE receiver,
                      arg |-> v])
            ELSE Ok(h)
      [] p.kind = "Stored" -> Ok(SetVal(h, o, name, [p EXCEPT !.value = v]))
      [] OTHER -> InitSlot(h, o, p.slot_id, v)

GetPropertyLocal(h, o, receiver, name) ==
    LET p == h.values[o][name]
    IN  IF p.kind # "Absent" THEN PropGet(h, o, p, receiver) ELSE OkV(h, Undefined)

\* faulty variant of SetPropertyLocal: a write to a slot-backed name replaces
\* the entry of the property map instead of writing the slot
SetPropertyLocalShadow(h, o, receiver, name, v) ==
    LET p == h.values[o][name]
    IN  IF p.kind # "Absent" /\ PropSlotId(p) < 0 THEN PropSet(h, o, name, p, receiver, v)
        ELSE IF p.kind # "Absent" THEN Ok(SetVal(h, o, name, NewDynamicProperty(v)))
        ELSE Ok([h EXCEPT !.enumerants[o] = Append(@, name),
                          !.values[o][name] = NewDynamicProperty(v)])

SetPropertyLocal(h, o, receiver, name, v) ==
    LET p == h.values[o][name]
    IN  IF PropSlotId(p) >= 0 THEN SetSlot(h, o, PropSlotId(p), v)
        ELSE IF p.kind # "Absent" THEN PropSet(h, o, name, p, receiver, v)
        ELSE Ok([h EXCEPT !.enumerants[o] = Append(@, name),
                          !.values[o][name] = NewDynamicProperty(v)])

\* faulty variant of InitPropertyLocal: a name with no entry is inserted the
\* way set_property_local inserts it, enumerable
InitPropertyLocalEnumerable(h, o, receiver, name, v) ==
    LET p == h.values[o][name]
    IN  IF p.kind # "Absent"
        THEN IF PropSlotId(p) >= 0 THEN InitSlot(h, o, PropSlotId(p), v)
             ELSE PropInit(h, o, name, p, receiver, v)
        ELSE Ok([h EXCEPT !.enumerants[o] = Append(@, name),
                          !.values[o][name] = NewDynamicProperty(v)])

InitPropertyLocal(h, o, receiver, name, v) ==
    LET p == h.values[o][name]
    IN  IF p.kind # "Absent"
        THEN IF PropSlotId(p) >= 0 THEN InitSlot(h, o, PropSlotId(p), v)
             ELSE PropInit(h, o, name, p, receiver, v)
        ELSE Ok(SetVal(h, o, name, NewDynamicProperty(v)))

\* faulty variant of DeleteProperty: the properties are told apart by their
\* local name only
DeletePropertyByLocalName(h, o, name) ==
    LET p == h.values[o][name]
        can_delete == IF p.kind # "Absent" THEN CanDelete(p) ELSE FALSE
    IN  OkV(IF can_delete
            THEN [h EXCEPT !.values[o] =
                     [n \in Names |-> IF n.local = name.local THEN Absent ELSE @[n]]]
            ELSE h, BoolV(can_delete))

DeleteProperty(h, o, name) ==
    LET p == h.values[o][name]
        can_delete == IF p.kind # "Absent" THEN CanDelete(p) ELSE FALSE
    IN  OkV(IF can_delete THEN SetVal(h, o, name, Absent) ELSE h, BoolV(can_delete))

RECURSIVE ChainOf(_)
\* the prototypes of o, nearest first
ChainOf(o) == IF Proto(o) = NoObj THEN << >> ELSE <<Proto(o)>> \o ChainOf(Proto(o))

Reverse(s) == [i \in 1..Len(s) |-> s[Len(s) + 1 - i]]

GetProvidedTrait(o, name) ==
    CASE ClassOf(o).kind = "ClassConstructor" -> LookupClassTraits(ClassOf(o).class, name)
      [] ClassOf(o).kind = "InstancePrototype" -> LookupInstanceTraits(ClassOf(o).class, name)
      [] OTHER -> << >>

RECURSIVE ProvidedBy(_, _)
\* the traits called name provided by the objects of the sequence, in its order
ProvidedBy(chain, name) ==
    IF chain = << >> THEN << >>
    ELSE GetProvidedTrait(Head(chain), name) \o ProvidedBy(Tail(chain), name)

\* faulty variant of GetTrait: the chain of an instance is visited from the
\* nearest prototype to the root
GetTraitNearestFirst(o, name) ==
    CASE ClassOf(o).kind = "ClassConstructor" -> GetProvidedTrait(o, name)
      [] ClassOf(o).kind = "InstancePrototype" -> << >>
      [] OTHER -> ProvidedBy(ChainOf(o), name)

GetTrait(o, name) ==
    CASE ClassOf(o).kind = "ClassConstructor" -> GetProvidedTrait(o, name)
      [] ClassOf(o).kind = "InstancePrototype" -> << >>
      [] OTHER -> ProvidedBy(Reverse(ChainOf(o)), name)

ProvidesTrait(o, name) ==
    CASE ClassOf(o).kind = "ClassConstructor" -> HasClassTrait(ClassOf(o).class, name)
      [] ClassOf(o).kind = "InstancePrototype" -> HasInstanceTrait(ClassOf(o).class, name)
      [] OTHER -> FALSE

\* faulty variant of HasTrait: only what the object itself provides counts
HasTraitOwn(o, name) ==
    CASE ClassOf(o).kind = "ClassConstructor" -> ProvidesTrait(o, name)
      [] OTHER -> FALSE

HasTrait(o, name) ==
    CASE ClassOf(o).kind = "ClassConstructor" -> ProvidesTrait(o, name)
      [] ClassOf(o).kind = "InstancePrototype" -> FALSE
      [] OTHER -> \E p \in Range(ChainOf(o)) : ProvidesTrait(p, name)

HasInstantiatedProperty(h, o, name) == h.values[o][name].kind # "Absent"

HasOwnProperty(h, o, name) == h.values[o][name].kind # "Absent" \/ HasTrait(o, name)

HasProperty(h, o, name) ==
    IF HasOwnProperty(h, o, name) THEN TRUE
    ELSE IF Proto(o) # NoObj THEN HasOwnProperty(h, Proto(o), name)
    ELSE FALSE

RECURSIVE ResolveMultiname(_, _, _)
\* resolve_multiname of a multiname with the one namespace of name
ResolveMultiname(h, o, name) ==
    IF HasProperty(h, o, name) THEN name
    ELSE IF Proto(o) # NoObj THEN ResolveMultiname(h, Proto(o), name)
    ELSE NoName

\* faulty variant of SuperName: looks up the class's own name instead of the
\* name of its superclass
SuperNameOwn(h, o, c) == ClassName(c)

\* the super_name of install_foreign_trait's Class branch
SuperName(h, o, c) ==
    LET q == ResolveMultiname(h, o, SuperClassName(c))
    IN  IF q = NoName THEN nObject ELSE q

RECURSIVE ScopeResolve(_, _, _)
\* Scope::resolve: the first object of the scope chain that has the name, or
\* NoObj; the caller reads the name from it with get_property
ScopeResolve(h, scope, name) ==
    IF scope = << >> THEN NoObj
    ELSE IF ResolveMultiname(h, Head(scope), name) # NoName
              /\ HasProperty(h, Head(scope), name)
         THEN Head(scope)
         ELSE ScopeResolve(h, Tail(scope), name)

HasOwnVirtualGetter(h, o, name) ==
    h.values[o][name].kind = "Virtual" /\ h.values[o][name].get # NoneV

HasOwnVirtualSetter(h, o, name) ==
    h.values[o][name].kind = "Virtual" /\ h.values[o][name].set # NoneV

\* faulty variant of GetEnumerantName: the enumerants are counted from zero
GetEnumerantNameFromZero(h, o, index) ==
    IF index < Len(h.enumerants[o]) THEN h.enumerants[o][index + 1] ELSE NoName

GetEnumerantName(h, o, index) ==
    IF index - 1 < 0 THEN NoName
    ELSE IF index <= Len(h.enumerants[o]) THEN h.enumerants[o][index] ELSE NoName

PropertyIsEnumerable(h, o, name) == name \in Range(h.enumerants[o])

\* Vec::remove(index), index counted from 1
RemoveAt(seq, i) == [k \in 1..(Len(seq) - 1) |-> IF k < i THEN seq[k] ELSE seq[k + 1]]

SetLocalPropertyIsEnumerable(h, o, name, is_enumerable) ==
    LET en == h.enumerants[o]
    IN  IF is_enumerable /\ h.values[o][name].kind # "Absent" /\ name \notin Range(en)
        THEN IF HasTrait(o, name) THEN Ok(h)
             ELSE Ok([h EXCEPT !.enumerants[o] = Append(@, name)])
        ELSE IF ~is_enumerable /\ name \in Range(en)
        THEN LET index == CHOOSE i \in 1..Len(en) :
                              en[i] = name /\ \A j \in (i + 1)..Len(en) : en[j] # name
             IN  Ok([h EXCEPT !.enumerants[o] = RemoveAt(@, index)])
        ELSE Ok(h)

\* the method table after function is stored at disp_id (disp_id > 0)
PutMethod(ms, disp_id, function) ==
    [ResizeTo(ms, disp_id + 1, NoneV) EXCEPT ![disp_id + 1] = function]

InstallMethod(h, o, name, disp_id, function) ==
    LET h1 == IF disp_id > 0
              THEN [h EXCEPT !.methods[o] = PutMethod(@, disp_id, function)]
              ELSE h
    IN  Ok(SetVal(h1, o, name, NewMethod(function)))

\* faulty variant of InstallGetter: the function is looked at only after the
\* method table and the property map are written
InstallGetterLateCheck(h, o, name, disp_id, function) ==
    LET h1 == IF disp_id > 0
              THEN [h EXCEPT !.methods[o] = PutMethod(@, disp_id, function)]
              ELSE h
        h2 == IF h1.values[o][name].kind = "Absent"
              THEN SetVal(h1, o, name, NewVirtual) ELSE h1
        r == InstallVirtualGetter(h2.values[o][name], function)
    IN  IF ~AsExecutable(function)
        THEN Err(h2, "Attempted to install getter without a valid method")
        ELSE Res(SetVal(h2, o, name, r.prop), Undefined, r.err, NoCall)

InstallGetter(h, o, name, disp_id, function) ==
    IF ~AsExecutable(function)
    THEN Err(h, "Attempted to install getter without a valid method")
    ELSE LET h1 == IF disp_id > 0
                   THEN [h EXCEPT !.methods[o] = PutMethod(@, disp_id, function)]
                   ELSE h
             h2 == IF h1.values[o][name].kind = "Absent"
                   THEN SetVal(h1, o, name, NewVirtual) ELSE h1
             r == InstallVirtualGetter(h2.values[o][name], function)
         IN  Res(SetVal(h2, o, name, r.prop), Undefined, r.err, NoCall)

\* faulty variant of InstallSetter: the entry is made anew, which drops a getter
\* installed before
InstallSetterFresh(h, o, name, disp_id, function) ==
    IF ~AsExecutable(function)
    THEN Err(h, "Attempted to install setter without a valid method")
    ELSE LET h1 == IF disp_id > 0
                   THEN [h EXCEPT !.methods[o] = PutMethod(@, disp_id, function)]
                   ELSE h
             r == InstallVirtualSetter(NewVirtual, function)
         IN  Res(SetVal(h1, o, name, r.prop), Undefined, r.err, NoCall)

InstallSetter(h, o, name, disp_id, function) ==
    IF ~AsExecutable(function)
    THEN Err(h, "Attempted to install setter without a valid method")
    ELSE LET h1 == IF disp_id > 0
                   THEN [h EXCEPT !.methods[o] = PutMethod(@, disp_id, function)]
                   ELSE h
             h2 == IF h1.values[o][name].kind = "Absent"
                   THEN SetVal(h1, o, name, NewVirtual) ELSE h1
             r == InstallVirtualSetter(h2.values[o][name], function)
         IN  Res(SetVal(h2, o, name, r.prop), Undefined, r.err, NoCall)

InstallDynamicProperty(h, o, name, v) == Ok(SetVal(h, o, name, NewDynamicProperty(v)))

InstallSlot(h, o, name, id, v) ==
    IF id = 0 THEN Ok(SetVal(h, o, name, NewStored(v)))
    ELSE Ok([SetVal(h, o, name, NewSlotProp(id)) EXCEPT
                !.slots[o] = [ResizeTo(@, id + 1, VacantSlot) EXCEPT ![id + 1] = SlotNew(v)]])

\* faulty variant of InstallConst: the slot array is not grown
InstallConstNoResize(h, o, name, id, v) ==
    IF id = 0 THEN Ok(SetVal(h, o, name, NewConst(v)))
    ELSE Ok([SetVal(h, o, name, NewSlotProp(id)) EXCEPT
                !.slots[o] = IF id + 1 <= Len(@)
                             THEN [@ EXCEPT ![id + 1] = SlotNewConst(v)] ELSE @])

\* faulty variant of InstallConst: what it installs can be written
InstallConstWritable(h, o, name, id, v) == InstallSlot(h, o, name, id, v)

InstallConst(h, o, name, id, v) ==
    IF id = 0 THEN Ok(SetVal(h, o, name, NewConst(v)))
    ELSE Ok([SetVal(h, o, name, NewSlotProp(id)) EXCEPT
                !.slots[o] = [ResizeTo(@, id + 1, VacantSlot) EXCEPT ![id + 1] = SlotNewConst(v)]])

(***************************************************************************)
(* TObject (avm2/object.rs): trait installation and chained get/set/init.  *)
(***************************************************************************)
\* install_foreign_trait, by trait kind; installs counts the calls per trait.
\* The Class branch is the part from FunctionObject::from_class on: the
\* superclass resolution before it is the action ResolveSuperClass.
InstallForeignTrait(h, o, tr, receiver) ==
    LET hc == [h EXCEPT !.installs[o][tr] = @ + 1]
    IN  CASE tr.kind = "Slot" -> InstallSlot(hc, o, tr.name, tr.id, tr.default)
          [] tr.kind = "Method" ->
                InstallMethod(hc, o, tr.name, tr.id, FnObj(tr.method, receiver))
          [] tr.kind = "Getter" ->
                InstallGetter(hc, o, tr.name, tr.id, FnObj(tr.method, receiver))
          [] tr.kind = "Setter" ->
                InstallSetter(hc, o, tr.name, tr.id, FnObj(tr.method, receiver))
          [] tr.kind = "Class" ->
                InstallConst(hc, o, ClassName(tr.class), tr.id, ClassObj(tr.class))
          [] tr.kind = "Function" ->
                InstallConst(hc, o, tr.name, tr.id, FnObj(tr.method, ""))
          [] OTHER -> InstallConst(hc, o, tr.name, tr.id, tr.default)

InstallTrait(h, o, tr, receiver) == InstallForeignTrait(h, o, tr, receiver)

RECURSIVE InstallAll(_, _, _, _)
\* for abc_trait in traits { install_trait(abc_trait, receiver)? }
InstallAll(h, o, traits, receiver) ==
    IF traits = << >> THEN Ok(h)
    ELSE LET r == InstallTrait(h, o, Head(traits), receiver)
         IN  IF r.err # "" THEN r ELSE InstallAll(r.h, o, Tail(traits), receiver)

\* the first lines of get_property, set_property and init_property
EnsureTraits(h, o, receiver, name) ==
    IF ~HasInstantiatedProperty(h, o, name)
    THEN InstallAll(h, o, GetTrait(o, name), receiver)
    ELSE Ok(h)

RECURSIVE GetProperty(_, _, _, _)
\* faulty variant of ReadProperty: an own property is read locally even when it
\* is virtual with a setter and no getter
ReadPropertyOwned(h1, self, receiver, name) ==
    IF HasOwnProperty(h1, self, name)
    THEN GetPropertyLocal(h1, self, receiver, name)
    ELSE IF Proto(self) # NoObj THEN GetProperty(h1, Proto(self), receiver, name)
    ELSE OkV(h1, Undefined)

\* get_property after the traits of name are installed
ReadProperty(h1, self, receiver, name) ==
    LET has_no_getter ==
            HasOwnVirtualSetter(h1, self, name) /\ ~HasOwnVirtualGetter(h1, self, name)
    IN  IF HasOwnProperty(h1, self, name) /\ ~has_no_getter
        THEN GetPropertyLocal(h1, self, receiver, name)
        ELSE IF Proto(self) # NoObj THEN GetProperty(h1, Proto(self), receiver, name)
        ELSE OkV(h1, Undefined)

GetProperty(h, self, receiver, name) ==
    LET e == EnsureTraits(h, self, receiver, name)
    IN  IF e.err # "" THEN e ELSE ReadProperty(e.h, self, receiver, name)

\* the first object of the sequence that owns a virtual setter for name
FirstSetterOwner(h, chain, name) ==
    IF \E i \in 1..Len(chain) : HasOwnVirtualSetter(h, chain[i], name)
    THEN chain[CHOOSE i \in 1..Len(chain) :
                   /\ HasOwnVirtualSetter(h, chain[i], name)
                   /\ \A j \in 1..(i - 1) : ~HasOwnVirtualSetter(h, chain[j], name)]
    ELSE NoObj

RECURSIVE SetProperty(_, _, _, _, _)
\* faulty variant of SetProperty: with no setter on the chain, the write goes to
\* the prototype that owns the property instead of the receiver
SetPropertyOnOwner(h, self, receiver, name, v) ==
    LET e == EnsureTraits(h, self, receiver, name)
        h1 == e.h
        my_proto == FirstSetterOwner(h1, ChainOf(self), name)
    IN  IF e.err # "" THEN e
        ELSE IF HasOwnVirtualSetter(h1, self, name)
        THEN SetPropertyLocal(h1, self, receiver, name, v)
        ELSE IF my_proto # NoObj THEN SetProperty(h1, my_proto, receiver, name, v)
        ELSE IF Proto(receiver) # NoObj /\ HasOwnProperty(h1, Proto(receiver), name)
        THEN SetPropertyLocal(h1, Proto(receiver), receiver, name, v)
        ELSE SetPropertyLocal(h1, receiver, receiver, name, v)

\* faulty variant of SetProperty: the setter of an ancestor is called with the
\* ancestor as the receiver
SetPropertyRebound(h, self, receiver, name, v) ==
    LET e == EnsureTraits(h, self, receiver, name)
        h1 == e.h
        my_proto == FirstSetterOwner(h1, ChainOf(self), name)
    IN  IF e.err # "" THEN e
        ELSE IF HasOwnVirtualSetter(h1, self, name)
        THEN SetPropertyLocal(h1, self, receiver, name, v)
        ELSE IF my_proto # NoObj THEN SetPropertyLocal(h1, my_proto, my_proto, name, v)
        ELSE SetPropertyLocal(h1, receiver, receiver, name, v)

SetProperty(h, self, receiver, name, v) ==
    LET e == EnsureTraits(h, self, receiver, name)
        h1 == e.h
        my_proto == FirstSetterOwner(h1, ChainOf(self), name)
    IN  IF e.err # "" THEN e
        ELSE IF HasOwnVirtualSetter(h1, self, name)
        THEN SetPropertyLocal(h1, self, receiver, name, v)
        ELSE IF my_proto # NoObj THEN SetProperty(h1, my_proto, receiver, name, v)
        ELSE SetPropertyLocal(h1, receiver, receiver, name, v)

RECURSIVE InitProperty(_, _, _, _, _)
InitProperty(h, self, receiver, name, v) ==
    LET e == EnsureTraits(h, self, receiver, name)
        h1 == e.h
        my_proto == FirstSetterOwner(h1, ChainOf(self), name)
    IN  IF e.err # "" THEN e
        ELSE IF HasOwnVirtualSetter(h1, self, name)
        THEN InitPropertyLocal(h1, self, receiver, name, v)
        ELSE IF my_proto # NoObj THEN InitProperty(h1, my_proto, receiver, name, v)
        ELSE InitPropertyLocal(h1, receiver, receiver, name, v)

(***************************************************************************)
(* Domain (avm2/domain.rs): the global domain G, the movie domain M, whose *)
(* parent is G, and the movie domain N, whose parent is M.  ds is the defs *)
(* map of every domain.                                                    *)
(***************************************************************************)
NoDomain == "none"
Domains == {"G", "M", "N"}
ParentDomain(D) == CASE D = "N" -> "M" [] D = "M" -> "G" [] OTHER -> NoDomain

NoScript == "none"
\* the scripts that export into each domain
ScriptsOf(D) == CASE D = "G" -> {"S1", "S2"} [] D = "M" -> {"S3"} [] OTHER -> {"S4"}

AnyNs == "*"
NoLocal == ""
DefNames == {QName("ns1", "Foo"), QName("ns2", "Foo")}
Multiname(nss, l) == [nss |-> nss, local |-> l]
Multinames ==
    {Multiname(nss, l) : nss \in {<<"ns1", "ns2">>, <<"ns2", "ns1">>, <<AnyNs>>, <<"ns1">>},
                         l \in {"Foo", NoLocal}}

RECURSIVE HasDefinition(_, _, _)
HasDefinition(ds, D, name) ==
    IF ds[D][name] # NoScript THEN TRUE
    ELSE IF ParentDomain(D) # NoDomain THEN HasDefinition(ds, ParentDomain(D), name)
    ELSE FALSE

\* faulty variant of ExportDefinition: only the domain itself is looked at
ExportDefinitionLocal(ds, D, name, script) ==
    IF ds[D][name] # NoScript
    THEN [ds |-> ds, err |-> "VerifyError: Attempted to redefine existing name"]
    ELSE [ds |-> [ds EXCEPT ![D][name] = script], err |-> ""]

ExportDefinition(ds, D, name, script) ==
    IF HasDefinition(ds, D, name)
    THEN [ds |-> ds, err |-> "VerifyError: Attempted to redefine existing name"]
    ELSE [ds |-> [ds EXCEPT ![D][name] = script], err |-> ""]

NoDefinition == [name |-> NoName, script |-> NoScript]

RECURSIVE GetDefiningScript(_, _, _)
RECURSIVE NamespaceLoop(_, _, _, _)
\* faulty variant of NamespaceLoop: the parent is asked after each namespace
\* that does not match
NamespaceLoopEager(ds, D, multiname, i) ==
    IF i > Len(multiname.nss)
    THEN {NoDefinition}
    ELSE LET ns == multiname.nss[i]
             qname == QName(ns, multiname.local)
             up == IF ParentDomain(D) # NoDomain
                   THEN GetDefiningScript(ds, ParentDomain(D),
                                          Multiname(<<ns>>, multiname.local))
                   ELSE {NoDefinition}
             rest == IF up # {NoDefinition} THEN up
                     ELSE NamespaceLoop(ds, D, multiname, i + 1)
         IN  IF ns = AnyNs
             THEN IF multiname.local # NoLocal
                  THEN LET found == {q \in DefNames : ds[D][q] # NoScript
                                                      /\ q.local = multiname.local}
                       IN  IF found # {}
                           THEN {[name |-> q, script |-> ds[D][q]] : q \in found}
                           ELSE rest
                  ELSE {NoDefinition}
             ELSE IF multiname.local # NoLocal
                  THEN IF qname \in DefNames /\ ds[D][qname] # NoScript
                       THEN {[name |-> qname, script |-> ds[D][qname]]}
                       ELSE rest
                  ELSE {NoDefinition}

\* the loop of get_defining_script from the i-th namespace of the set on, and
\* what follows it: the set of the results it can return.  The scan of defs
\* for a wildcard namespace follows the iteration order of a HashMap, which is
\* not specified: any definition with the local name can be met first.
NamespaceLoop(ds, D, multiname, i) ==
    IF i > Len(multiname.nss)
    THEN IF ParentDomain(D) # NoDomain
         THEN GetDefiningScript(ds, ParentDomain(D), multiname)
         ELSE {NoDefinition}
    ELSE LET ns == multiname.nss[i]
             qname == QName(ns, multiname.local)
         IN  IF ns = AnyNs
             THEN IF multiname.local # NoLocal
                  THEN LET found == {q \in DefNames : ds[D][q] # NoScript
                                                      /\ q.local = multiname.local}
                       IN  IF found # {}
                           THEN {[name |-> q, script |-> ds[D][q]] : q \in found}
                           ELSE NamespaceLoop(ds, D, multiname, i + 1)
                  ELSE {NoDefinition}
             ELSE IF multiname.local # NoLocal
                  THEN IF qname \in DefNames /\ ds[D][qname] # NoScript
                       THEN {[name |-> qname, script |-> ds[D][qname]]}
                       ELSE NamespaceLoop(ds, D, multiname, i + 1)
                  ELSE {NoDefinition}

GetDefiningScript(ds, D, multiname) == NamespaceLoop(ds, D, multiname, 1)

(***************************************************************************)
(* resolve_multiname for a set of candidate namespaces.                    *)
(***************************************************************************)
NoNs == ""

\* Class::resolve_any_instance_trait / resolve_any_class_trait: the namespace
\* of the first trait of the class with the local name
FirstTraitNs(traits, l) ==
    LET found == SelectSeq(traits, LAMBDA tr : tr.name.local = l)
    IN  IF found = << >> THEN NoNs ELSE Head(found).name.ns

RECURSIVE ResolveAnyTrait(_, _)
ResolveAnyTrait(o, l) ==
    LET proto_trait_name == IF Proto(o) # NoObj THEN ResolveAnyTrait(Proto(o), l) ELSE NoNs
    IN  IF proto_trait_name # NoNs THEN proto_trait_name
        ELSE CASE ClassOf(o).kind = "ClassConstructor" ->
                      FirstTraitNs(ClassTraits(ClassOf(o).class), l)
               [] ClassOf(o).kind = "InstancePrototype" ->
                      FirstTraitNs(InstanceTraits(ClassOf(o).class), l)
               [] OTHER -> NoNs

RECURSIVE ResolveAny(_, _, _)
\* resolve_any: the namespaces it can return.  It scans values, a HashMap, in
\* its iteration order, which is not specified: any own property with the
\* local name can be met first.
ResolveAny(h, o, l) ==
    LET own == {n.ns : n \in {k \in Names : h.values[o][k].kind # "Absent" /\ k.local = l}}
        trait_ns == IF ClassOf(o).kind \in {"ClassConstructor", "NoClass"}
                    THEN ResolveAnyTrait(o, l) ELSE NoNs
    IN  IF own # {} THEN own
        ELSE IF trait_ns = NoNs
        THEN IF Proto(o) # NoObj THEN ResolveAny(h, Proto(o), l) ELSE {NoNs}
        ELSE {trait_ns}

RECURSIVE ResolveMultinameSet(_, _, _)
RECURSIVE ResolveLoop(_, _, _, _)
\* the loop of resolve_multiname from the i-th namespace of the set on, and
\* what follows it: the set of the results it can return
ResolveLoop(h, o, multiname, i) ==
    IF i > Len(multiname.nss)
    THEN IF Proto(o) # NoObj THEN ResolveMultinameSet(h, Proto(o), multiname) ELSE {NoName}
    ELSE LET ns == multiname.nss[i]
             qname == QName(ns, multiname.local)
         IN  IF ns = AnyNs
             THEN IF multiname.local # NoLocal
                  THEN {IF a = NoNs THEN NoName ELSE QName(a, multiname.local) :
                            a \in ResolveAny(h, o, multiname.local)}
                  ELSE {NoName}
             ELSE IF multiname.local # NoLocal
                  THEN IF qname \in Names /\ HasProperty(h, o, qname)
                       THEN {qname}
                       ELSE ResolveLoop(h, o, multiname, i + 1)
                  ELSE {NoName}

ResolveMultinameSet(h, o, multiname) == ResolveLoop(h, o, multiname, 1)

(***************************************************************************)
(* State machine.                                                          *)
(***************************************************************************)
Heap == [values |-> values, slots |-> slots, methods |-> methods,
         enumerants |-> enumerants, installs |-> installs]

\* the record of the last operation: its arguments, whether the object owned
\* the name when it began (had), and its result
Last(op, o, name, id, val, had, r) ==
    [op |-> op, obj |-> o, name |-> name, id |-> id, val |-> val, had |-> had,
     ret |-> r.ret, err |-> r.err, call |-> r.call]

Init ==
    /\ values = [o \in Objects |-> [n \in Names |-> Absent]]
    /\ slots = [o \in Objects |-> << >>]
    /\ methods = [o \in Objects |-> << >>]
    /\ enumerants = [o \in Objects |-> << >>]
    /\ installs = [o \in Objects |-> [tr \in AllTraits |-> 0]]
    /\ last = Last("new", NoObj, NoName, 0, Undefined, FALSE, Ok(Heap))
    /\ stack = << >>
    /\ defs = [D \in Domains |-> [n \in DefNames |-> NoScript]]
    /\ exported = [D \in Domains |-> << >>]
    /\ storage = << >>
    /\ sounds = << >>
    /\ playing = {}
    /\ action_queue = << >>
    /\ issued = 0

\* the state after an operation with result r; an operation begins only when
\* no other is in progress
Commit(r, op, o, name, id, val) ==
    /\ stack = << >>
    /\ stack' = stack
    /\ UNCHANGED <<domainVars, byteVars, audioVars>>
    /\ \A x \in Objects : Len(r.h.enumerants[x]) <= MaxEnumerants
    /\ \A x \in Objects, tr \in AllTraits : r.h.installs[x][tr] <= MaxInstalls
    /\ values' = r.h.values
    /\ slots' = r.h.slots
    /\ methods' = r.h.methods
    /\ enumerants' = r.h.enumerants
    /\ installs' = r.h.installs
    /\ last' = Last(op, o, name, id, val,
                    name \in Names /\ HasOwnProperty(Heap, o, name), r)

DoGetProperty(o, n) ==
    Commit(GetProperty(Heap, o, o, n), "get_property", o, n, 0, Undefined)

DoSetProperty(o, n, v) ==
    Commit(SetProperty(Heap, o, o, n, v), "set_property", o, n, 0, v)

DoInitProperty(o, n, v) ==
    Commit(InitProperty(Heap, o, o, n, v), "init_property", o, n, 0, v)

DoDeleteProperty(o, n) ==
    Commit(DeleteProperty(Heap, o, n), "delete_property", o, n, 0, Undefined)

DoSetEnumerable(o, n, b) ==
    Commit(SetLocalPropertyIsEnumerable(Heap, o, n, b),
           "set_local_property_is_enumerable", o, n, 0, BoolV(b))

DoGetSlot(o, id) == Commit(GetSlot(Heap, o, id), "get_slot", o, NoName, id, Undefined)

DoSetSlot(o, id, v) == Commit(SetSlot(Heap, o, id, v), "set_slot", o, NoName, id, v)

DoInitSlot(o, id, v) == Commit(InitSlot(Heap, o, id, v), "init_slot", o, NoName, id, v)

DoInstallSlot(o, n, id, v) ==
    Commit(InstallSlot(Heap, o, n, id, v), "install_slot", o, n, id, v)

DoInstallConst(o, n, id, v) ==
    Commit(InstallConst(Heap, o, n, id, v), "install_const", o, n, id, v)

DoInstallGetter(o, n, id, f) ==
    Commit(InstallGetter(Heap, o, n, id, f), "install_getter", o, n, id, f)

DoInstallSetter(o, n, id, f) ==
    Commit(InstallSetter(Heap, o, n, id, f), "install_setter", o, n, id, f)

(***************************************************************************)
(* Spec: a script working on the instance d, whose class traits are        *)
(* installed lazily, and host code installing a slot or a const on d.      *)
(***************************************************************************)
MaxSlotId == 3
MaxStarts == 2
MaxCapStarts == 34

TraitNames == {nx, nc}

SlotIds == 0..MaxSlotId

HostSlotIds == {0, MaxSlotId}

Next ==
    \/ \E n \in TraitNames \cup {np} : DoGetProperty("d", n)
    \/ \E n \in TraitNames \cup {np}, v \in PrimValues : DoSetProperty("d", n, v)
    \/ \E n \in TraitNames : DoInitProperty("d", n, Prim("V1"))
    \/ \E n \in TraitNames : DoDeleteProperty("d", n)
    \/ \E n \in TraitNames, b \in BOOLEAN : DoSetEnumerable("d", n, b)
    \/ \E id \in SlotIds : DoSetSlot("d", id, Prim("V2"))
    \/ \E id \in SlotIds : DoInitSlot("d", id, Prim("V2"))
    \/ \E id \in HostSlotIds : DoInstallSlot("d", np, id, Prim("V1"))
    \/ \E id \in HostSlotIds : DoInstallConst("d", np, id, Prim("V1"))

Spec == Init /\ [][Next]_vars

(***************************************************************************)
(* SpecTraits: a script reading and writing the lazily installed traits of *)
(* every kind: the instance traits of d (slot, const, getter, setter,      *)
(* method) and the class traits of the class constructor CC (class,        *)
(* function).                                                              *)
(***************************************************************************)
LazyTargets == ({"d"} \X {nx, nc, ng, nm}) \cup ({"CC"} \X {nK, nf})

NextTraits ==
    \/ \E t \in LazyTargets \cup {<<"CC", nKC>>} : DoGetProperty(t[1], t[2])
    \/ \E t \in LazyTargets : DoSetProperty(t[1], t[2], Prim("V2"))
    \/ \E n \in {nc, ng} : DoInitProperty("d", n, Prim("V1"))
    \/ \E t \in {<<"d", nx>>, <<"CC", nK>>} : DoDeleteProperty(t[1], t[2])

SpecTraits == Init /\ [][NextTraits]_vars

(***************************************************************************)
(* SpecChain: dynamic properties on d, PD and PB and host-installed        *)
(* accessors on the prototypes PD and PB of the chain d -> PD -> PB.       *)
(***************************************************************************)
ChainObjects == {"d", "PD", "PB"}

HostFunctions == {FnObj("host_fn", ""), PlainObj}

NextChain ==
    \/ \E o \in ChainObjects : DoGetProperty(o, np)
    \/ \E v \in PrimValues : DoSetProperty("d", np, v)
    \/ \E o \in {"PD", "PB"} : DoSetProperty(o, np, Prim("V1"))
    \/ DoSetProperty("d", nq, Prim("V1"))
    \/ \E v \in PrimValues : DoInitProperty("d", np, v)
    \/ \E n \in {np, nq} : DoDeleteProperty("d", n)
    \/ \E b \in BOOLEAN : DoSetEnumerable("d", np, b)
    \/ \E o \in {"PD", "PB"}, f \in HostFunctions : DoInstallGetter(o, np, 0, f)
    \/ \E o \in {"PD", "PB"}, f \in HostFunctions : DoInstallSetter(o, np, 0, f)

SpecChain == Init /\ [][NextChain]_vars

(***************************************************************************)
(* SpecHost: host code building the bare object H: accessors on the names  *)
(* p and q, with and without a dispatch id, from executable and            *)
(* non-executable objects; slots and consts; reads and writes of slots by  *)
(* id.                                                                     *)
(***************************************************************************)
HostNames == {np, nq}

HostGetters == {FnObj("host_get", ""), PlainObj}

HostSetters == {FnObj("host_set", ""), PlainObj}

NextHost ==
    \/ \E n \in HostNames, id \in {0, 1}, f \in HostGetters : DoInstallGetter("H", n, id, f)
    \/ \E n \in HostNames, id \in {0, 2}, f \in HostSetters : DoInstallSetter("H", n, id, f)
    \/ \E id \in HostSlotIds : DoInstallSlot("H", nq, id, Prim("V1"))
    \/ \E id \in HostSlotIds : DoInstallConst("H", nq, id, Prim("V1"))
    \/ \E id \in SlotIds \cup {MaxSlotId + 1} : DoGetSlot("H", id)
    \/ \E id \in SlotIds \cup {MaxSlotId + 1} : DoSetSlot("H", id, Prim("V2"))
    \/ \E id \in SlotIds \cup {MaxSlotId + 1} : DoInitSlot("H", id, Prim("V2"))

SpecHost == Init /\ [][NextHost]_vars

(***************************************************************************)
(* SpecNames: a bare object H and the prototype PD of the instance d get   *)
(* dynamic properties called p in two namespaces, and multinames with      *)
(* several candidate namespaces are resolved on H and on d.                *)
(***************************************************************************)
DoResolveMultiname(o, multiname) ==
    \E q \in ResolveMultinameSet(Heap, o, multiname) :
        Commit(OkV(Heap, q), "resolve_multiname", o, NoName, 0, multiname)

LocalP == {np, np1}

ObjectMultinames ==
    {Multiname(nss, "p") : nss \in {<<AnyNs, "ns1">>, <<"ns1", AnyNs>>, <<"public", "ns1">>,
                                    <<"ns1", "public">>, <<AnyNs>>}}
        \cup {Multiname(<<AnyNs>>, "x"), Multiname(<<"ns1", AnyNs>>, NoLocal)}

NextNames ==
    \/ \E n \in LocalP : DoSetProperty("H", n, Prim("V1"))
    \/ \E n \in LocalP : DoInitProperty("H", n, Prim("V2"))
    \/ \E n \in LocalP : DoDeleteProperty("H", n)
    \/ \E n \in LocalP, b \in BOOLEAN : DoSetEnumerable("H", n, b)
    \/ DoSetProperty("PD", np1, Prim("V1"))
    \/ DoSetProperty("d", np, Prim("V1"))
    \/ \E o \in {"H", "d"}, multiname \in ObjectMultinames : DoResolveMultiname(o, multiname)

SpecNames == Init /\ [][NextNames]_vars

(***************************************************************************)
(* SpecDomain: scripts exporting definitions into the domains G, M and N   *)
(* in any order, and lookups of multinames in them.  exported records the  *)
(* names each domain accepted, in export order.                            *)
(***************************************************************************)
DoExportDefinition(D, name, script) ==
    LET r == ExportDefinition(defs, D, name, script)
    IN  /\ defs' = r.ds
        /\ exported' = IF r.err = "" THEN [exported EXCEPT ![D] = Append(@, name)]
                       ELSE exported
        /\ last' = Last("export_definition", D, name, 0, script, HasDefinition(defs, D, name),
                        [ret |-> Undefined, err |-> r.err, call |-> NoCall])
        /\ UNCHANGED <<objectVars, stack, byteVars, audioVars>>

DoGetDefiningScript(D, multiname) ==
    \E r \in GetDefiningScript(defs, D, multiname) :
        /\ last' = Last("get_defining_script", D, NoName, 0, multiname, FALSE,
                        [ret |-> r, err |-> "", call |-> NoCall])
        /\ UNCHANGED <<objectVars, stack, domainVars, byteVars, audioVars>>

NextDomain ==
    \/ \E D \in Domains, name \in DefNames :
          \E script \in ScriptsOf(D) : DoExportDefinition(D, name, script)
    \/ \E D \in Domains, multiname \in Multinames : DoGetDefiningScript(D, multiname)

SpecDomain == Init /\ [][NextDomain]_vars

(***************************************************************************)
(* SpecInstall: get_property on the class constructor L in the steps of    *)
(* its code.  Installing a Class trait resolves the superclass through the *)
(* scope chain, which reads the superclass from L with a get_property      *)
(* nested in the one in progress; stack holds the calls in progress, the   *)
(* innermost last.                                                         *)
(***************************************************************************)
Frame(o, n) == [obj |-> o, name |-> n, pc |-> "check", todo |-> << >>, resolved |-> FALSE]

Top == stack[Len(stack)]

SetTop(f) == [stack EXCEPT ![Len(stack)] = f]

HeapUnchanged == UNCHANGED <<objectVars, domainVars, byteVars, audioVars>>

\* an Err(..)? leaves every call in progress
Abort(msg) ==
    /\ stack' = << >>
    /\ last' = Last("get_property", stack[1].obj, stack[1].name, 0, Undefined, FALSE,
                    Err(Heap, msg))
    /\ HeapUnchanged

\* the interpreter calls get_property(o, n)
BeginGetProperty(o, n) ==
    /\ stack = << >>
    /\ stack' = <<Frame(o, n)>>
    /\ UNCHANGED last
    /\ HeapUnchanged

\* if !self.has_instantiated_property(name) { for abc_trait in self.get_trait(name)? ..
CheckInstantiated ==
    /\ stack # << >>
    /\ Top.pc = "check"
    /\ LET todo == IF HasInstantiatedProperty(Heap, Top.obj, Top.name) THEN << >>
                   ELSE GetTrait(Top.obj, Top.name)
       IN  stack' = SetTop([Top EXCEPT !.pc = IF todo = << >> THEN "read" ELSE "install",
                                       !.todo = todo])
    /\ UNCHANGED last
    /\ HeapUnchanged

NeedsSuperClass(f) ==
    /\ f.pc = "install"
    /\ Head(f.todo).kind = "Class"
    /\ SuperClassName(Head(f.todo).class) # NoName
    /\ ~f.resolved

\* the superclass resolution of install_foreign_trait's Class branch
ResolveSuperClass ==
    /\ stack # << >>
    /\ NeedsSuperClass(Top)
    /\ LET super_name == SuperName(Heap, Top.obj, Head(Top.todo).class)
           found == ScopeResolve(Heap, ScopeOf(Top.obj), super_name)
       IN  IF found = NoObj THEN Abort("Could not resolve superclass")
           ELSE /\ Len(stack) < MaxDepth
                /\ stack' = Append(SetTop([Top EXCEPT !.resolved = TRUE]),
                                   Frame(found, super_name))
                /\ UNCHANGED last
                /\ HeapUnchanged

\* the part of install_trait that changes the object
InstallTraitStep ==
    /\ stack # << >>
    /\ Top.pc = "install"
    /\ ~NeedsSuperClass(Top)
    /\ LET r == InstallTrait(Heap, Top.obj, Head(Top.todo), Top.obj)
       IN  IF r.err # "" THEN Abort(r.err)
           ELSE /\ r.h.installs[Top.obj][Head(Top.todo)] <= MaxInstalls
                /\ values' = r.h.values
                /\ slots' = r.h.slots
                /\ methods' = r.h.methods
                /\ enumerants' = r.h.enumerants
                /\ installs' = r.h.installs
                /\ UNCHANGED <<domainVars, byteVars, audioVars>>
                /\ stack' = SetTop([Top EXCEPT
                                 !.pc = IF Tail(Top.todo) = << >> THEN "read" ELSE "install",
                                 !.todo = Tail(Top.todo), !.resolved = FALSE])
                /\ UNCHANGED last

\* the rest of get_property: the value is read and the call returns
ReturnProperty ==
    /\ stack # << >>
    /\ Top.pc = "read"
    /\ LET r == ReadProperty(Heap, Top.obj, Top.obj, Top.name)
       IN  /\ \A x \in Objects, tr \in AllTraits : r.h.installs[x][tr] <= MaxInstalls
           /\ values' = r.h.values
           /\ slots' = r.h.slots
           /\ methods' = r.h.methods
           /\ enumerants' = r.h.enumerants
           /\ installs' = r.h.installs
           /\ UNCHANGED <<domainVars, byteVars, audioVars>>
           /\ stack' = SubSeq(stack, 1, Len(stack) - 1)
           /\ last' = IF Len(stack) = 1
                      THEN Last("get_property", Top.obj, Top.name, 0, Undefined,
                                HasOwnProperty(Heap, Top.obj, Top.name), r)
                      ELSE last

LibNames == {nS, nT, nU}

NextInstall ==
    \/ \E n \in LibNames \cup {np} : BeginGetProperty("L", n)
    \/ CheckInstantiated
    \/ ResolveSuperClass
    \/ InstallTraitStep
    \/ ReturnProperty
    \/ \E v \in PrimValues : DoSetProperty("L", np, v)
    \/ DoDeleteProperty("L", np)

SpecInstall == Init /\ [][NextInstall]_vars

(***************************************************************************)
(* SpecLookup: get_trait of every name on every object, between reads of   *)
(* the trait names of the instance d, which install them.                  *)
(***************************************************************************)
DoGetTrait(o, n) ==
    Commit(OkV(Heap, GetTrait(o, n)), "get_trait", o, n, 0, Undefined)

InstanceTraitNames == {nx, ng, nc, nm}

NextLookup ==
    \/ \E o \in Objects, n \in Names : DoGetTrait(o, n)
    \/ \E n \in InstanceTraitNames : DoGetProperty("d", n)

SpecLookup == Init /\ [][NextLookup]_vars

(***************************************************************************)
(* SpecWalk: get_property, set_property and resolve_multiname on the       *)
(* instance d in the steps of their code: each call on an object of the    *)
(* chain d -> PD -> PB that goes on to a prototype is a frame of stack.    *)
(***************************************************************************)
WalkFrame(op, self, receiver, name, val) ==
    [op |-> op, obj |-> self, receiver |-> receiver, name |-> name, val |-> val,
     pc |-> "enter", cursor |-> NoObj]

\* what a step of a call comes to: the calls in progress return r, or they
\* go on with the heap h and the calls st in progress
Returns(r) == [done |-> TRUE, r |-> r, h |-> r.h, st |-> << >>]
Continues(h, st) == [done |-> FALSE, r |-> Ok(h), h |-> h, st |-> st]

Apply(out) ==
    /\ stack' = out.st
    /\ values' = out.h.values
    /\ slots' = out.h.slots
    /\ methods' = out.h.methods
    /\ enumerants' = out.h.enumerants
    /\ installs' = out.h.installs
    /\ UNCHANGED <<domainVars, byteVars, audioVars>>
    /\ last' = IF out.done
               THEN Last(stack[1].op, stack[1].obj, stack[1].name, Len(stack), stack[1].val,
                         FALSE, out.r)
               ELSE last

BeginCall(op, o, name, val) ==
    /\ stack = << >>
    /\ Apply(Continues(Heap, <<WalkFrame(op, o, o, name, val)>>))

\* one call of get_property, up to its return or its call of the prototype
GetPropertyCall(h, st) ==
    LET f == st[Len(st)]
        e == EnsureTraits(h, f.obj, f.receiver, f.name)
        h1 == e.h
        has_no_getter == HasOwnVirtualSetter(h1, f.obj, f.name)
                             /\ ~HasOwnVirtualGetter(h1, f.obj, f.name)
    IN  IF e.err # "" THEN Returns(e)
        ELSE IF HasOwnProperty(h1, f.obj, f.name) /\ ~has_no_getter
        THEN Returns(GetPropertyLocal(h1, f.obj, f.receiver, f.name))
        ELSE IF Proto(f.obj) # NoObj
        THEN Continues(h1, Append(st, WalkFrame("get_property", Proto(f.obj), f.receiver,
                                                f.name, f.val)))
        ELSE Returns(OkV(h1, Undefined))

GetPropertyStep ==
    /\ stack # << >>
    /\ Top.op = "get_property"
    /\ \E out \in {GetPropertyCall(Heap, stack)} : Apply(out)

\* set_property up to its while loop
SetPropertyEntry(h, st) ==
    LET f == st[Len(st)]
        e == EnsureTraits(h, f.obj, f.receiver, f.name)
    IN  IF e.err # "" THEN Returns(e)
        ELSE IF HasOwnVirtualSetter(e.h, f.obj, f.name)
        THEN Returns(SetPropertyLocal(e.h, f.obj, f.receiver, f.name, f.val))
        ELSE Continues(e.h, [st EXCEPT ![Len(st)] =
                                 [f EXCEPT !.pc = "loop", !.cursor = Proto(f.obj)]])

SetPropertyEnter ==
    /\ stack # << >>
    /\ Top.op = "set_property" /\ Top.pc = "enter"
    /\ \E out \in {SetPropertyEntry(Heap, stack)} : Apply(out)

\* faulty variant of SetPropertyTurn: the loop does not move on to the
\* prototype of my_proto
SetPropertyTurnSamePrototype(h, st) ==
    LET f == st[Len(st)]
    IN  IF f.cursor = NoObj
        THEN Returns(SetPropertyLocal(h, f.receiver, f.receiver, f.name, f.val))
        ELSE IF HasOwnVirtualSetter(h, f.cursor, f.name)
        THEN Continues(h, Append(st, WalkFrame("set_property", f.cursor, f.receiver,
                                               f.name, f.val)))
        ELSE Continues(h, st)

\* one turn of the while loop of set_property, or what follows the loop
SetPropertyTurn(h, st) ==
    LET f == st[Len(st)]
    IN  IF f.cursor = NoObj
        THEN Returns(SetPropertyLocal(h, f.receiver, f.receiver, f.name, f.val))
        ELSE IF HasOwnVirtualSetter(h, f.cursor, f.name)
        THEN Continues(h, Append(st, WalkFrame("set_property", f.cursor, f.receiver,
                                               f.name, f.val)))
        ELSE Continues(h, [st EXCEPT ![Len(st)] = [f EXCEPT !.cursor = Proto(f.cursor)]])

SetPropertyLoop ==
    /\ stack # << >>
    /\ Top.op = "set_property" /\ Top.pc = "loop"
    /\ \E out \in {SetPropertyTurn(Heap, stack)} : Apply(out)

ToProto == QName("", "proto")

RECURSIVE ResolveOwn(_, _, _, _)
\* the loop of resolve_multiname from the i-th namespace on: the results it
\* can return, ToProto standing for the end of the loop
ResolveOwn(h, o, multiname, i) ==
    IF i > Len(multiname.nss) THEN {ToProto}
    ELSE LET ns == multiname.nss[i]
             qname == QName(ns, multiname.local)
         IN  IF ns = AnyNs
             THEN IF multiname.local # NoLocal
                  THEN {IF a = NoNs THEN NoName ELSE QName(a, multiname.local) :
                            a \in ResolveAny(h, o, multiname.local)}
                  ELSE {NoName}
             ELSE IF multiname.local # NoLocal
                  THEN IF qname \in Names /\ HasProperty(h, o, qname)
                       THEN {qname}
                       ELSE ResolveOwn(h, o, multiname, i + 1)
                  ELSE {NoName}

\* one call of resolve_multiname, up to its return or its call of the prototype
ResolveMultinameCall(h, st) ==
    LET f == st[Len(st)]
    IN  {IF q # ToProto THEN Returns(OkV(h, q))
         ELSE IF Proto(f.obj) # NoObj
         THEN Continues(h, Append(st, WalkFrame("resolve_multiname", Proto(f.obj),
                                                f.receiver, NoName, f.val)))
         ELSE Returns(OkV(h, NoName)) : q \in ResolveOwn(h, f.obj, f.val, 1)}

ResolveMultinameStep ==
    /\ stack # << >>
    /\ Top.op = "resolve_multiname"
    /\ \E out \in ResolveMultinameCall(Heap, stack) : Apply(out)

\* dynamic names: p, which the prototypes come to own, and q, which nobody owns
WalkNames == {np, nq}

WalkMultinames ==
    {Multiname(<<"ns1", "public">>, "p"), Multiname(<<"ns1">>, "q"), Multiname(<<AnyNs>>, "g")}

WalkSteps == GetPropertyStep \/ SetPropertyEnter \/ SetPropertyLoop \/ ResolveMultinameStep

NextWalk ==
    \/ \E n \in WalkNames : BeginCall("get_property", "d", n, Undefined)
    \/ \E n \in WalkNames : BeginCall("set_property", "d", n, Prim("V1"))
    \/ \E multiname \in WalkMultinames : BeginCall("resolve_multiname", "d", NoName, multiname)
    \/ GetPropertyStep
    \/ SetPropertyEnter
    \/ SetPropertyLoop
    \/ ResolveMultinameStep
    \/ DoSetProperty("PB", np, Prim("V2"))
    \/ DoInstallGetter("PB", np, 0, FnObj("host_fn", ""))
    \/ DoInstallSetter("PD", np, 0, FnObj("host_fn", ""))

SpecWalk == Init /\ [][NextWalk]_vars

\* a call in progress is not suspended for ever
SpecWalkFair == SpecWalk /\ WF_vars(WalkSteps)

(***************************************************************************)
(* SpecBytes: a byte-array object.  ByteArrayObjectData is a base          *)
(* ScriptObjectData, here the one of H, and a ByteArrayStorage, the        *)
(* variable storage.  Public names with a numeric local name address the   *)
(* storage, every other name the base.                                     *)
(***************************************************************************)
\* Value::Unsigned(n)
Unsigned(n) == [t |-> "uint", v |-> ToString(n), recv |-> ""]

ByteInputs == {7, 300}

\* coerce_to_u32 of the unsigned values written here
CoerceToU32(v) == CHOOSE k \in ByteInputs : Unsigned(k) = v

\* str::parse::<usize> of the local names in use; -1 stands for Err
DecimalLiterals == ("0" :> 0) @@ ("2" :> 2)

ParseUsize(local_name) ==
    IF local_name \in DOMAIN DecimalLiterals THEN DecimalLiterals[local_name] ELSE -1

\* faulty variant of IsIndexName: the namespace is not looked at
IsIndexNameAnyNamespace(name) == ParseUsize(name.local) >= 0

\* name.namespace().is_public() and the local name parses as usize
IsIndexName(name) == name.ns = "public" /\ ParseUsize(name.local) >= 0

NoByte == -1

\* ByteArrayStorage::get: the byte at item, or NoByte beyond the length
StorageGet(st, item) == IF item < Len(st) THEN st[item + 1] ELSE NoByte

\* ByteArrayStorage::set: the storage grows with zeros up to item
StorageSet(st, item, byte) ==
    [k \in 1..(IF item + 1 > Len(st) THEN item + 1 ELSE Len(st)) |->
        IF k = item + 1 THEN byte ELSE IF k <= Len(st) THEN st[k] ELSE 0]

\* ByteArrayStorage::delete: the element is removed; the storage either
\* closes the gap or keeps the position with a zero byte
StorageDelete(st, item) ==
    IF item < Len(st)
    THEN {[st EXCEPT ![item + 1] = 0],
          [k \in 1..(Len(st) - 1) |-> IF k <= item THEN st[k] ELSE st[k + 1]]}
    ELSE {st}

\* the result r of the base and the storage after the operation
BRes(r, st) == [r |-> r, storage |-> st]

ByteArrayGetPropertyLocal(h, st, o, receiver, name) ==
    IF IsIndexName(name)
    THEN BRes(OkV(h, IF StorageGet(st, ParseUsize(name.local)) # NoByte
                     THEN Unsigned(StorageGet(st, ParseUsize(name.local)))
                     ELSE Undefined), st)
    ELSE BRes(GetPropertyLocal(h, o, receiver, name), st)

ByteArraySetPropertyLocal(h, st, o, receiver, name, v) ==
    IF IsIndexName(name)
    THEN BRes(Ok(h), StorageSet(st, ParseUsize(name.local), CoerceToU32(v) % 256))
    ELSE BRes(SetPropertyLocal(h, o, receiver, name, v), st)

ByteArrayInitPropertyLocal(h, st, o, receiver, name, v) ==
    IF IsIndexName(name)
    THEN BRes(Ok(h), StorageSet(st, ParseUsize(name.local), CoerceToU32(v) % 256))
    ELSE BRes(InitPropertyLocal(h, o, receiver, name, v), st)

\* the outcomes of delete_property
ByteArrayDeleteProperty(h, st, o, name) ==
    IF IsIndexName(name)
    THEN {BRes(OkV(h, BoolV(TRUE)), s2) : s2 \in StorageDelete(st, ParseUsize(name.local))}
    ELSE {BRes(DeleteProperty(h, o, name), st)}

ByteArrayHasOwnProperty(h, st, o, name) ==
    IF IsIndexName(name)
    THEN BRes(OkV(h, BoolV(StorageGet(st, ParseUsize(name.local)) # NoByte)), st)
    ELSE BRes(OkV(h, BoolV(HasOwnProperty(h, o, name))), st)

\* the index names are no keys of the property map
n0 == QName("public", "0")
n2 == QName("public", "2")

ByteNames == {n0, n2, n0ns, np}

ByteOps == {"get_property_local", "set_property_local", "init_property_local",
            "delete_property", "has_own_property"}

\* the state after an operation on the byte array with outcome out
CommitBytes(out, op, o, name, val) ==
    /\ stack = << >>
    /\ stack' = stack
    /\ UNCHANGED <<domainVars, audioVars>>
    /\ Len(out.r.h.enumerants[o]) <= MaxEnumerants
    /\ values' = out.r.h.values
    /\ slots' = out.r.h.slots
    /\ methods' = out.r.h.methods
    /\ enumerants' = out.r.h.enumerants
    /\ installs' = out.r.h.installs
    /\ storage' = out.storage
    /\ last' = Last(op, o, name, Len(storage), val, FALSE, out.r)

BytesGet(n) ==
    CommitBytes(ByteArrayGetPropertyLocal(Heap, storage, "H", "H", n),
                "get_property_local", "H", n, Undefined)

BytesSet(n, k) ==
    CommitBytes(ByteArraySetPropertyLocal(Heap, storage, "H", "H", n, Unsigned(k)),
                "set_property_local", "H", n, Unsigned(k))

BytesInit(n, k) ==
    CommitBytes(ByteArrayInitPropertyLocal(Heap, storage, "H", "H", n, Unsigned(k)),
                "init_property_local", "H", n, Unsigned(k))

BytesDelete(n) ==
    \E out \in ByteArrayDeleteProperty(Heap, storage, "H", n) :
        CommitBytes(out, "delete_property", "H", n, Undefined)

BytesHas(n) ==
    CommitBytes(ByteArrayHasOwnProperty(Heap, storage, "H", n),
                "has_own_property", "H", n, Undefined)

\* index 0 is written with the first input and index 2 with the second; the
\* other names are set to the second and initialised to the first
NextBytes ==
    \/ \E n \in ByteNames : BytesGet(n)
    \/ BytesSet(n0, 7)
    \/ \E n \in ByteNames \ {n0} : BytesSet(n, 300)
    \/ \E n \in {n2, n0ns} : BytesInit(n, 7)
    \/ \E n \in ByteNames \ {n0} : BytesDelete(n)
    \/ \E n \in ByteNames : BytesHas(n)

SpecBytes == Init /\ [][NextBytes]_vars

(***************************************************************************)
(* SpecEnum: the enumerant list of the instance d.  The names are the slot *)
(* trait x of Base and the dynamic names p and q; they are read, written   *)
(* through set_property, set_property_local and init_property, and made    *)
(* enumerable or not; get_enumerant_name is called with every index up to  *)
(* one past the longest list.                                              *)
(***************************************************************************)
DoSetPropertyLocal(o, n, v) ==
    Commit(SetPropertyLocal(Heap, o, o, n, v), "set_property_local", o, n, 0, v)

DoGetEnumerantName(o, index) ==
    Commit(OkV(Heap, GetEnumerantName(Heap, o, index)),
           "get_enumerant_name", o, NoName, index, Undefined)

EnumNames == {nx, np, nq}

EnumIndices == 0..(MaxEnumerants + 1)

NextEnum ==
    \/ \E n \in EnumNames : DoGetProperty("d", n)
    \/ \E n \in EnumNames : DoSetProperty("d", n, Prim("V1"))
    \/ \E n \in EnumNames : DoSetPropertyLocal("d", n, Prim("V1"))
    \/ \E n \in EnumNames : DoInitProperty("d", n, Prim("V1"))
    \/ \E n \in EnumNames, b \in BOOLEAN : DoSetEnumerable("d", n, b)
    \/ \E index \in EnumIndices : DoGetEnumerantName("d", index)

SpecEnum == Init /\ [][NextEnum]_vars

(***************************************************************************)
(* SpecProtoClass: as_proto_class, one turn of its while loop at a time.   *)
(* The call in progress is the one frame of stack: the object and the      *)
(* local variable class.  Between the calls the bare object H gets and     *)
(* loses dynamic properties.  A call that began goes on running, which is  *)
(* the weak fairness of its loop.                                          *)
(***************************************************************************)
NoClassName == ""

\* ScriptObjectData::as_class: the class of a constructor or of a prototype
AsClass(o) == IF ClassOf(o).kind = "NoClass" THEN NoClassName ELSE ClassOf(o).class

\* Option<GcCell<Class>> as a value
ClassValue(c) == IF c = NoClassName THEN NoneV ELSE Prim(c)

ProtoClassFrame(o, class) == [op |-> "as_proto_class", obj |-> o, class |-> class]

\* let mut class = self.as_class();
BeginAsProtoClass(o) ==
    /\ stack = << >>
    /\ stack' = <<ProtoClassFrame(o, AsClass(o))>>
    /\ UNCHANGED <<objectVars, last, domainVars, byteVars, audioVars>>

\* the test of the while loop and one execution of its body
AsProtoClassTurn(f) ==
    IF f.class # NoClassName THEN [done |-> TRUE, class |-> f.class]
    ELSE IF Proto(f.obj) # NoObj
    THEN [done |-> FALSE, class |-> AsClass(Proto(f.obj))]
    ELSE [done |-> TRUE, class |-> NoClassName]

AsProtoClassStep ==
    /\ stack # << >>
    /\ stack[1].op = "as_proto_class"
    /\ LET out == AsProtoClassTurn(stack[1])
       IN  IF out.done
           THEN /\ stack' = << >>
                /\ last' = Last("as_proto_class", stack[1].obj, NoName, 0, Undefined,
                                FALSE, OkV(Heap, ClassValue(out.class)))
           ELSE /\ stack' = <<ProtoClassFrame(stack[1].obj, out.class)>>
                /\ UNCHANGED last
    /\ UNCHANGED <<objectVars, domainVars, byteVars, audioVars>>

ProtoClassObjects == {"d", "PD", "CC", "H", "e"}

NextProtoClass ==
    \/ \E o \in ProtoClassObjects : BeginAsProtoClass(o)
    \/ AsProtoClassStep
    \/ \E n \in {np, nq}, v \in PrimValues : DoSetProperty("H", n, v)
    \/ \E n \in {np, nq} : DoDeleteProperty("H", n)

SpecProtoClass == Init /\ [][NextProtoClass]_vars

SpecProtoClassFair == SpecProtoClass /\ WF_vars(AsProtoClassStep)

(***************************************************************************)
(* The AudioManager.  sounds is its list of sound instances, playing the   *)
(* instances the audio backend reports a position for, action_queue the    *)
(* actions queued for the player, and issued the number of instance        *)
(* handles the backend has handed out: every started sound gets a handle   *)
(* of its own.                                                             *)
(***************************************************************************)
MAX_SOUNDS == 32

NoHandle == 0
NoSound == "no sound"
NoDisplayObject == "no display object"
NoSoundObject == "no sound object"

SoundInstance(sound, instance, display_object, avm1_object) ==
    [sound |-> sound, instance |-> instance, display_object |-> display_object,
     avm1_object |-> avm1_object]

Audio == [sounds |-> sounds, playing |-> playing, action_queue |-> action_queue,
          issued |-> issued]

\* the manager and backend a after an operation that returned ret
ARes(a, ret) == [a |-> a, ret |-> ret]

Instances(list) == {list[i].instance : i \in 1..Len(list)}

\* ActionType::Method { object, name: "onSoundComplete", args: vec![] }; the
\* instance is kept with it to tell the reports of two sounds apart
SoundComplete(s) == [object |-> s.avm1_object, name |-> "onSoundComplete",
                     instance |-> s.instance]

RECURSIVE QueueEnded(_, _, _)
\* the queue after the closure of update_sounds went through list
QueueEnded(queue, list, position) ==
    IF list = << >> THEN queue
    ELSE QueueEnded(IF Head(list).instance \notin position
                       /\ Head(list).avm1_object # NoSoundObject
                    THEN Append(queue, SoundComplete(Head(list)))
                    ELSE queue, Tail(list), position)

\* faulty variant of UpdateSounds: the ended sounds are reported and stay in
\* the list
UpdateSoundsKeepsEnded(a) ==
    ARes([a EXCEPT !.action_queue = QueueEnded(@, a.sounds, a.playing)], NoHandle)

UpdateSounds(a) ==
    ARes([a EXCEPT !.sounds = SelectSeq(@, LAMBDA s : s.instance \in a.playing),
                   !.action_queue = QueueEnded(@, a.sounds, a.playing)], NoHandle)

\* the instance the backend makes, tracked by the manager
Started(a, sound, display_object, avm1_object) ==
    ARes([a EXCEPT !.sounds = Append(@, SoundInstance(sound, a.issued + 1,
                                                      display_object, avm1_object)),
                   !.playing = @ \cup {a.issued + 1},
                   !.issued = @ + 1], a.issued + 1)

\* faulty variant of StartSound: the number of tracked sounds is not tested
StartSoundUncapped(a, sound, display_object, avm1_object, ok) ==
    IF ok THEN Started(a, sound, display_object, avm1_object) ELSE ARes(a, NoHandle)

\* ok: whether audio.start_sound returns Ok
StartSound(a, sound, display_object, avm1_object, ok) ==
    IF Len(a.sounds) < MAX_SOUNDS
    THEN IF ok THEN Started(a, sound, display_object, avm1_object) ELSE ARes(a, NoHandle)
    ELSE ARes(a, NoHandle)

\* ok: whether audio.start_stream returns Ok
StartStream(a, movie_clip, ok) ==
    IF Len(a.sounds) < MAX_SOUNDS
    THEN IF ok THEN Started(a, NoSound, movie_clip, NoSoundObject) ELSE ARes(a, NoHandle)
    ELSE ARes(a, NoHandle)

\* Vec::swap_remove(i), i counted from 1
SwapRemove(list, i) ==
    [k \in 1..(Len(list) - 1) |-> IF k = i THEN list[Len(list)] ELSE list[k]]

StopSound(a, instance) ==
    IF instance \in Instances(a.sounds)
    THEN LET i == CHOOSE k \in 1..Len(a.sounds) :
                      /\ a.sounds[k].instance = instance
                      /\ \A j \in 1..(k - 1) : a.sounds[j].instance # instance
         IN  ARes([a EXCEPT !.playing = @ \ {instance},
                            !.sounds = SwapRemove(@, i)], NoHandle)
    ELSE ARes(a, NoHandle)

\* the manager after the instances stopped were dropped from the list and
\* stopped on the backend
Stopped(a, stopped) ==
    ARes([a EXCEPT !.playing = @ \ stopped,
                   !.sounds = SelectSeq(@, LAMBDA s : s.instance \notin stopped)], NoHandle)

StopSoundsWithHandle(a, sound) ==
    Stopped(a, {a.sounds[k].instance :
                   k \in {i \in 1..Len(a.sounds) : a.sounds[i].sound = sound}})

StopSoundsWithDisplayObject(a, display_object) ==
    Stopped(a, {a.sounds[k].instance :
                   k \in {i \in 1..Len(a.sounds) :
                              a.sounds[i].display_object = display_object}})

StopAllSounds(a) == ARes([a EXCEPT !.sounds = << >>, !.playing = {}], NoHandle)

\* the last call of the manager, or event of the backend, and what it returned
AudioLast(op, arg, r) == [op |-> op, arg |-> arg, ret |-> r.ret]

CommitAudio(r, op, arg) ==
    /\ sounds' = r.a.sounds
    /\ playing' = r.a.playing
    /\ action_queue' = r.a.action_queue
    /\ issued' = r.a.issued
    /\ last' = AudioLast(op, arg, r)
    /\ UNCHANGED <<objectVars, stack, domainVars, byteVars>>

DoStartSound(sound, display_object, avm1_object, ok) ==
    CommitAudio(StartSound(Audio, sound, display_object, avm1_object, ok), "start_sound",
                IF ok THEN avm1_object ELSE "Err")

DoStartStream(movie_clip, ok) ==
    CommitAudio(StartStream(Audio, movie_clip, ok), "start_stream",
                IF ok THEN movie_clip ELSE "Err")

DoStopSound(instance) ==
    CommitAudio(StopSound(Audio, instance), "stop_sound", ToString(instance))

DoStopSoundsWithHandle(sound) ==
    CommitAudio(StopSoundsWithHandle(Audio, sound), "stop_sounds_with_handle", sound)

DoStopSoundsWithDisplayObject(display_object) ==
    CommitAudio(StopSoundsWithDisplayObject(Audio, display_object),
                "stop_sounds_with_display_object", display_object)

DoStopAllSounds == CommitAudio(StopAllSounds(Audio), "stop_all_sounds", "")

DoUpdateSounds == CommitAudio(UpdateSounds(Audio), "update_sounds", "")

\* the backend played an instance to its end: it has no position any more
SoundEnds(instance) ==
    /\ instance \in playing
    /\ playing' = playing \ {instance}
    /\ last' = AudioLast("sound ends", ToString(instance), ARes(Audio, NoHandle))
    /\ UNCHANGED <<objectVars, stack, domainVars, byteVars, sounds, action_queue, issued>>

(***************************************************************************)
(* SpecAudio: up to MaxStarts sounds and streams, with and without a       *)
(* display object and an AVM1 sound object, are started, stopped in every  *)
(* way and played to their end in any order.                               *)
(***************************************************************************)
Handles == 1..MaxStarts

NextAudio ==
    \/ issued < MaxStarts /\ \E ok \in BOOLEAN : DoStartSound("S1", NoDisplayObject, "SO1", ok)
    \/ issued < MaxStarts /\ DoStartSound("S2", "MC1", "SO2", TRUE)
    \/ issued < MaxStarts /\ DoStartSound("S2", NoDisplayObject, NoSoundObject, TRUE)
    \/ issued < MaxStarts /\ \E ok \in BOOLEAN : DoStartStream("MC1", ok)
    \/ \E instance \in Handles : DoStopSound(instance)
    \/ DoStopSoundsWithHandle("S2")
    \/ DoStopSoundsWithDisplayObject("MC1")
    \/ DoStopAllSounds
    \/ DoUpdateSounds
    \/ \E instance \in Handles : SoundEnds(instance)

SpecAudio == Init /\ [][NextAudio]_vars

(***************************************************************************)
(* SpecAudioCap: the list is filled to MAX_SOUNDS.  The sounds are alike,  *)
(* without display object and sound object; streams are started, and the   *)
(* newest instance is stopped or ends, once the list is full or one short  *)
(* of it; the other operations come at any time.  The backend hands out at *)
(* most MaxCapStarts handles.                                              *)
(***************************************************************************)
NearlyFull == Len(sounds) >= MAX_SOUNDS - 1

NextAudioCap ==
    \/ /\ issued < MaxCapStarts
       /\ \E ok \in BOOLEAN : DoStartSound("S1", NoDisplayObject, NoSoundObject, ok)
    \/ issued < MaxCapStarts /\ NearlyFull /\ \E ok \in BOOLEAN : DoStartStream("MC1", ok)
    \/ NearlyFull /\ DoStopSound(issued)
    \/ NearlyFull /\ SoundEnds(issued)
    \/ DoStopSoundsWithHandle("S1")
    \/ DoStopSoundsWithDisplayObject("MC1")
    \/ DoStopAllSounds
    \/ DoUpdateSounds

SpecAudioCap == Init /\ [][NextAudioCap]_vars

(***************************************************************************)
(* SpecConst: the class constant ACTIVATE of Derived, a class trait built  *)
(* by Trait::from_const, next to the Class and Function traits of the      *)
(* class constructor CC and the Const trait c of the instance d.           *)
(***************************************************************************)
ConstTargets == {<<"CC", nACTIVATE>>, <<"CC", nf>>, <<"d", nc>>}

NextConst ==
    \/ \E t \in ConstTargets : DoGetProperty(t[1], t[2])
    \/ \E t \in ConstTargets, v \in PrimValues : DoSetProperty(t[1], t[2], v)
    \/ \E t \in ConstTargets : DoInitProperty(t[1], t[2], Prim("V1"))
    \/ \E id \in {0, 2} : DoGetSlot("d", id)

SpecConst == Init /\ [][NextConst]_vars

(***************************************************************************)
(* SpecHas: the dynamic property p comes and goes on the instance d and on *)
(* its prototypes PD and PB; has_property is asked for p and for the name  *)
(* q, which nobody owns, and get_property for p, on each of the three.     *)
(***************************************************************************)
DoHasProperty(o, n) ==
    Commit(OkV(Heap, BoolV(HasProperty(Heap, o, n))), "has_property", o, n, 0, Undefined)

HasObjects == {"d", "PD", "PB"}

NextHas ==
    \/ \E o \in HasObjects, n \in {np, nq} : DoHasProperty(o, n)
    \/ \E o \in HasObjects : DoGetProperty(o, np)
    \/ \E o \in HasObjects : DoSetProperty(o, np, Prim("V1"))
    \/ \E o \in HasObjects : DoDeleteProperty(o, np)

SpecHas == Init /\ [][NextHas]_vars

(***************************************************************************)
(* SpecProto: Object.prototype.isPrototypeOf and has_prototype_in_chain    *)
(* on every pair of objects, e and its chain e -> d -> PD -> PB included.  *)
(***************************************************************************)
\* Value::Object(o)
ObjectValue(o) == [t |-> "object", v |-> o, recv |-> ""]

RECURSIVE IsPrototypeOfLoop(_, _)
\* while let Value::Object(proto) = target_proto { .. }
IsPrototypeOfLoop(search_proto, target_proto) ==
    IF target_proto.t # "object" THEN FALSE
    ELSE IF search_proto = target_proto.v THEN TRUE
    ELSE IsPrototypeOfLoop(search_proto,
                           IF Proto(target_proto.v) # NoObj
                           THEN ObjectValue(Proto(target_proto.v)) ELSE Undefined)

\* Object.prototype.isPrototypeOf with this = search_proto and args[0] = arg
IsPrototypeOf(search_proto, arg) == IsPrototypeOfLoop(search_proto, arg)

RECURSIVE HasPrototypeInChainLoop(_, _)
\* while let Some(proto) = my_proto { .. }, without interfaces
HasPrototypeInChainLoop(my_proto, type_proto) ==
    IF my_proto = NoObj THEN FALSE
    ELSE IF my_proto = type_proto THEN TRUE
    ELSE HasPrototypeInChainLoop(Proto(my_proto), type_proto)

\* has_prototype_in_chain(type_proto, false)
HasPrototypeInChain(self, type_proto) == HasPrototypeInChainLoop(Proto(self), type_proto)

DoIsPrototypeOf(search_proto, arg) ==
    Commit(OkV(Heap, BoolV(IsPrototypeOf(search_proto, arg))),
           "is_prototype_of", search_proto, NoName, 0, arg)

DoHasPrototypeInChain(self, type_proto) ==
    Commit(OkV(Heap, BoolV(HasPrototypeInChain(self, type_proto))),
           "has_prototype_in_chain", self, NoName, 0, ObjectValue(type_proto))

ProtoObjects == {"e", "d", "PD", "PB", "CC", "L", "H"}

NextProto ==
    \/ \E P \in ProtoObjects, V \in ProtoObjects : DoIsPrototypeOf(P, ObjectValue(V))
    \/ \E P \in ProtoObjects : DoIsPrototypeOf(P, Undefined)
    \/ \E V \in ProtoObjects, P \in ProtoObjects : DoHasPrototypeInChain(V, P)

SpecProto == Init /\ [][NextProto]_vars

(***************************************************************************)
(* Properties.                                                             *)
(***************************************************************************)
Accesses == {"get_property", "set_property", "init_property"}

Installing(f) == f.pc = "install"

\* C2: while the traits of a name are being installed on an object (the
\* superclass resolution of a Class trait included), no property access on that
\* object begins a second installation of the same name: no two calls in
\* progress are installing the same name on the same object.
C2_OneInstallInProgress ==
    \A i, j \in DOMAIN stack :
        (i < j /\ Installing(stack[i]) /\ Installing(stack[j]))
            => ~(stack[i].obj = stack[j].obj /\ stack[i].name = stack[j].name)

\* an installation on L is in progress and a get_property of the superclass
\* nested in it is installing another name on L
C2_Witness ==
    /\ Len(stack) >= 2
    /\ Installing(stack[1]) /\ Installing(stack[2])
    /\ stack[1].obj = stack[2].obj
    /\ stack[1].resolved

\* C1: over any sequence of get_property / set_property / init_property calls
\* each trait of each kind is installed at most once on an object, and after an
\* access to a name that has traits has_instantiated_property(name) is true.
C1_InstalledAtMostOnce ==
    /\ \A o \in Objects, tr \in AllTraits : installs[o][tr] <= 1
    /\ (last.op \in Accesses /\ last.err = "" /\ GetTrait(last.obj, last.name) # << >>)
          => HasInstantiatedProperty(Heap, last.obj, last.name)

\* the step is the call op(o, n)
Step(op, o, n) == last'.op = op /\ last'.obj = o /\ last'.name = n

IsData(p) == p.kind \in {"Stored", "Slot"}

IsSetter(p) == p.kind = "Virtual" /\ p.set # NoneV

\* C3: when O has no own property x and no trait x, an ancestor of O has x as a
\* data property and no ancestor owns a virtual setter for x, set_property(O,
\* x, v) creates a local property on O, a following get_property(O, x) returns
\* v, and the x of every ancestor is unchanged.
C3_ShadowingOnWrite ==
    [][\A o \in ChainObjects :
          ( /\ Step("set_property", o, np)
            /\ ~HasOwnProperty(Heap, o, np)
            /\ \E a \in Range(ChainOf(o)) : IsData(values[a][np])
            /\ \A a \in Range(ChainOf(o)) : ~IsSetter(values[a][np]) )
          => ( /\ last'.err = ""
               /\ values[o][np].kind = "Absent" /\ IsData(values'[o][np])
               /\ GetProperty(Heap', o, o, np).ret = last'.val
               /\ \A a \in Range(ChainOf(o)) :
                      values'[a][np] = values[a][np] /\ slots'[a] = slots[a] )]_vars

\* d has just shadowed the V1 its prototype PB holds under p with its own V2
C3_Witness ==
    /\ last.op = "set_property" /\ last.obj = "d" /\ last.name = np
    /\ ~last.had /\ last.err = ""
    /\ last.val = Prim("V2")
    /\ values["d"][np] = NewDynamicProperty(Prim("V2"))
    /\ values["PB"][np] = NewDynamicProperty(Prim("V1"))
    /\ values["PD"][np].kind = "Absent"

\* C4: when O has no own x and P is the nearest ancestor of O that owns a
\* virtual setter for x, set_property(O, x, v) calls the setter of P with O as
\* the receiver and v as the argument, leaves the property map and the
\* enumerant list of O as they were, and has_own_property(O, x) is still false.
C4_SetterDelegation ==
    [][\A o \in ChainObjects : \A i \in 1..Len(ChainOf(o)) :
          ( /\ Step("set_property", o, np)
            /\ ~HasOwnProperty(Heap, o, np)
            /\ IsSetter(values[ChainOf(o)[i]][np])
            /\ \A j \in 1..(i - 1) : ~IsSetter(values[ChainOf(o)[j]][np]) )
          => ( /\ last'.err = ""
               /\ last'.call = [fn |-> values[ChainOf(o)[i]][np].set, this |-> o,
                                arg |-> last'.val]
               /\ values'[o] = values[o]
               /\ enumerants'[o] = enumerants[o]
               /\ ~HasOwnProperty(Heap', o, np) )]_vars

\* d has just been set through the setter of PB, the farther of its prototypes
C4_Witness ==
    /\ last.op = "set_property" /\ last.obj = "d" /\ last.name = np
    /\ ~last.had
    /\ ~IsSetter(values["PD"][np]) /\ IsSetter(values["PB"][np])
    /\ last.call = [fn |-> FnObj("host_fn", ""), this |-> "d", arg |-> last.val]
    /\ ~HasOwnProperty(Heap, "d", np)

\* C5: when O owns a virtual property n with a setter and no getter,
\* get_property(O, n) does not read the entry of O: it returns what the
\* nearest ancestor that has n for reading gives, a getter being called with O
\* as the receiver, or Undefined when there is no such ancestor.
C5_SetterOnlyFallsThrough ==
    [][\A o \in ChainObjects :
          ( /\ Step("get_property", o, np)
            /\ IsSetter(values[o][np]) /\ values[o][np].get = NoneV )
          => LET chain == ChainOf(o)
                 Readable(a) == /\ values[a][np].kind # "Absent"
                                /\ ~(IsSetter(values[a][np]) /\ values[a][np].get = NoneV)
                 idx == {i \in 1..Len(chain) : Readable(chain[i])}
                 first == CHOOSE i \in idx : \A j \in idx : i <= j
                 p == values[chain[first]][np]
             IN  /\ last'.err = ""
                 /\ last'.ret = IF idx = {} THEN Undefined
                                ELSE IF p.kind = "Virtual" THEN Called(p.get, o)
                                ELSE p.value ]_vars

\* PD owns a setter and no getter; the read of p on PD ran the getter of PB with
\* PD as the receiver
C5_Witness ==
    /\ last.op = "get_property" /\ last.obj = "PD" /\ last.name = np
    /\ IsSetter(values["PD"][np]) /\ values["PD"][np].get = NoneV
    /\ values["PB"][np].get = FnObj("host_fn", "")
    /\ last.ret = Called(FnObj("host_fn", ""), "PD")

\* the Slot trait x that class Base declares for its instances, and its slot id
SlotX == InstanceTraits("Base")[1]

C7_OwnOnlyAfterFirstAccess ==
    HasOwnProperty(Heap, "d", nx) <=> installs["d"][SlotX] > 0

\* C7: has_instantiated_property(d, x) is false before the first access to x on
\* d and true after it; has_own_property(d, x) is true before and after, since
\* it also counts the traits that are not installed yet.
C7_InstantiatedOnlyAfterFirstAccess ==
    /\ HasInstantiatedProperty(Heap, "d", nx) <=> installs["d"][SlotX] > 0
    /\ HasOwnProperty(Heap, "d", nx)

\* the first access to x on d has just installed the trait
C7_Witness ==
    /\ last.op \in {"get_property", "set_property"} /\ last.obj = "d" /\ last.name = nx
    /\ last.had
    /\ installs["d"][SlotX] = 1
    /\ HasInstantiatedProperty(Heap, "d", nx)

\* C8: get_enumerant_name(1), get_enumerant_name(2), ... return only names that
\* are properties of the object now, each once, and None from the first index
\* that returns None on.
C8_EnumerantsAreCurrent ==
    \A o \in Objects : \A i \in 1..(MaxEnumerants + 1) :
        LET n == GetEnumerantName(Heap, o, i)
        IN  /\ n # NoName
                => /\ values[o][n].kind # "Absent"
                   /\ \A j \in 1..(i - 1) : GetEnumerantName(Heap, o, j) # n
            /\ n = NoName
                => \A j \in i..(MaxEnumerants + 1) : GetEnumerantName(Heap, o, j) = NoName

\* C9: the enumerant list of an object holds no name twice and only names that
\* are present in its property map.
C9_EnumerantsWellFormed ==
    \A o \in Objects :
        /\ \A i, j \in DOMAIN enumerants[o] : i # j => enumerants[o][i] # enumerants[o][j]
        /\ \A i \in DOMAIN enumerants[o] : values[o][enumerants[o][i]].kind # "Absent"

\* C10: every slot-backed entry of a property map has a slot id below the
\* length of the slot array of its object, and the slot at that id is populated.
C10_SlotBackedPopulated ==
    \A o \in Objects, n \in Names :
        values[o][n].kind = "Slot"
            => /\ values[o][n].slot_id < Len(slots[o])
               /\ slots[o][values[o][n].slot_id + 1].occ

\* the host installed a const in the last slot, beyond the slots of the traits,
\* and the slots in between are vacant
C10_Witness ==
    /\ last.op = "install_const" /\ last.id = MaxSlotId
    /\ values["d"][np].kind = "Slot" /\ values["d"][np].slot_id = MaxSlotId
    /\ Len(slots["d"]) = MaxSlotId + 1
    /\ ~slots["d"][MaxSlotId].occ
    /\ values["d"][nx].kind = "Slot"

\* C11: install_getter after install_setter and install_setter after
\* install_getter both leave one virtual property with a getter and a setter:
\* an installation keeps the accessor of the other kind that is already there,
\* and on a name with no property or a virtual one the two orders give the same
\* property map.
C11_AccessorsMerge ==
    /\ [](\A n \in HostNames :
            values["H"][n].kind \in {"Absent", "Virtual"}
            => LET g == FnObj("host_get", "")
                   s == FnObj("host_set", "")
                   gs == InstallSetter(InstallGetter(Heap, "H", n, 1, g).h, "H", n, 2, s)
                   sg == InstallGetter(InstallSetter(Heap, "H", n, 2, s).h, "H", n, 1, g)
               IN  /\ gs.err = "" /\ sg.err = ""
                   /\ gs.h.values = sg.h.values
                   /\ gs.h.values["H"][n].kind = "Virtual"
                   /\ HasOwnVirtualGetter(gs.h, "H", n) /\ HasOwnVirtualSetter(gs.h, "H", n))
    /\ [][\A n \in HostNames :
            /\ (Step("install_getter", "H", n) /\ last'.err = "")
                 => /\ values'["H"][n].kind = "Virtual"
                    /\ values'["H"][n].get = last'.val
                    /\ values'["H"][n].set = values["H"][n].set
            /\ (Step("install_setter", "H", n) /\ last'.err = "")
                 => /\ values'["H"][n].kind = "Virtual"
                    /\ values'["H"][n].set = last'.val
                    /\ values'["H"][n].get = values["H"][n].get]_vars

\* the setter of p has just been installed on H after the getter, and both are
\* there
C11_Witness ==
    /\ last.op = "install_setter" /\ last.obj = "H" /\ last.name = np /\ last.err = ""
    /\ last.had
    /\ values["H"][np].get = FnObj("host_get", "")
    /\ values["H"][np].set = FnObj("host_set", "")

\* the entry of name on o, once its traits are installed, is what install_const
\* makes: a const property, or a property backed by a const slot
IsConst(o, name) ==
    LET h0 == EnsureTraits(Heap, o, o, name).h
        p == h0.values[o][name]
    IN  \/ \E v \in PrimValues : p = NewConst(v)
        \/ /\ p.kind = "Slot"
           /\ \E v \in PrimValues : h0.slots[o][p.slot_id + 1] = SlotNewConst(v)

C13_GetSlotErrors ==
    ( /\ last.op = "get_slot"
      /\ \/ last.id + 1 > Len(slots[last.obj])
         \/ ~slots[last.obj][last.id + 1].occ )
    => last.err # ""

\* C14: install_getter and install_setter with a function object that is not
\* executable return an error and leave the property map, the method table and
\* the slot array unchanged; set_slot and init_slot with an id out of range
\* return an error and leave the object unchanged.
C14_ErrorsLeaveObjectUnchanged ==
    [][( \/ /\ last'.op \in {"install_getter", "install_setter"}
            /\ ~AsExecutable(last'.val)
         \/ /\ last'.op \in {"set_slot", "init_slot"}
            /\ last'.id + 1 > Len(slots[last'.obj]) )
       => /\ last'.err # ""
          /\ values' = values /\ methods' = methods /\ slots' = slots
          /\ enumerants' = enumerants]_vars

\* install_getter with an object that is not executable has just failed on the
\* name p of H, which holds a setter with a dispatch id
C14_Witness ==
    /\ last.op = "install_getter" /\ last.obj = "H" /\ last.name = np /\ last.id = 1
    /\ last.val = PlainObj /\ last.err # ""
    /\ values["H"][np].set = FnObj("host_set", "") /\ values["H"][np].get = NoneV
    /\ Len(methods["H"]) = 3 /\ methods["H"][2] = NoneV

IsAncestor(A, D) ==
    \/ A = ParentDomain(D)
    \/ ParentDomain(D) # NoDomain /\ A = ParentDomain(ParentDomain(D))

DefinedInOrAbove(D, name) ==
    \E A \in Domains : (A = D \/ IsAncestor(A, D)) /\ defs[A][name] # NoScript

\* C15: export_definition(name, script) on a domain D, when the name is
\* already defined in D or in an ancestor of D, returns the redefinition error
\* and leaves the definitions of every domain as they were.
C15_RedefinitionRejected ==
    [][(last'.op = "export_definition" /\ DefinedInOrAbove(last'.obj, last'.name))
         => /\ last'.err = "VerifyError: Attempted to redefine existing name"
            /\ defs' = defs]_vars

\* the child of a child of G was refused a name that G defines
C15_Witness ==
    /\ last.op = "export_definition" /\ last.obj = "N" /\ last.err # ""
    /\ defs["G"][last.name] = "S1"
    /\ defs["M"][last.name] = NoScript /\ defs["N"][last.name] = NoScript

\* C16: after any sequence of export_definition calls, no name is defined
\* both in a domain and in one of its ancestors.
C16_NoShadowedExport ==
    \A D \in Domains, A \in Domains, name \in DefNames :
        (IsAncestor(A, D) /\ defs[D][name] # NoScript) => defs[A][name] = NoScript

\* some candidate namespace of the multiname matches a definition of D
MatchesIn(D, multiname) ==
    /\ multiname.local # NoLocal
    /\ \E i \in 1..Len(multiname.nss), q \in DefNames :
          /\ defs[D][q] # NoScript
          /\ q.local = multiname.local
          /\ multiname.nss[i] \in {AnyNs, q.ns}

\* C17: get_defining_script on a domain with a parent answers with a
\* definition of the domain itself whenever one of the candidate namespaces
\* matches there, whatever the position of the namespace in the set and
\* whatever the parent defines; otherwise its answer is the parent's answer
\* for the same multiname, or none when the multiname has no local name.
C17_ParentAfterWholeLoop ==
    (last.op = "get_defining_script" /\ ParentDomain(last.obj) # NoDomain)
        => LET D == last.obj
               multiname == last.val
           IN  IF MatchesIn(D, multiname)
               THEN /\ last.ret # NoDefinition
                    /\ defs[D][last.ret.name] = last.ret.script
               ELSE IF multiname.local = NoLocal
               THEN last.ret = NoDefinition
               ELSE last.ret \in GetDefiningScript(defs, ParentDomain(D), multiname)

\* M matches on the second namespace of the set, G on the first
C17_Witness ==
    /\ last.op = "get_defining_script" /\ last.obj = "M"
    /\ last.val = Multiname(<<"ns1", "ns2">>, "Foo")
    /\ defs["G"][QName("ns1", "Foo")] = "S1"
    /\ defs["M"][QName("ns1", "Foo")] = NoScript
    /\ defs["M"][QName("ns2", "Foo")] = "S3"
    /\ last.ret = [name |-> QName("ns2", "Foo"), script |-> "S3"]

\* the names of D with the local name, in export order
RECURSIVE ExportedWithLocal(_, _)
ExportedWithLocal(names, l) ==
    IF names = << >> THEN << >>
    ELSE IF Head(names).local = l
    THEN <<Head(names)>> \o ExportedWithLocal(Tail(names), l)
    ELSE ExportedWithLocal(Tail(names), l)

\* C18: for a multiname with the wildcard namespace, get_defining_script
\* returns, among the definitions of the domain with the local name, the one
\* that was exported first.
C18_WildcardFirstExported ==
    (/\ last.op = "get_defining_script"
     /\ last.val.nss = <<AnyNs>>
     /\ ExportedWithLocal(exported[last.obj], last.val.local) # << >>)
        => last.ret.name = Head(ExportedWithLocal(exported[last.obj], last.val.local))

\* the concrete namespaces of the set under which o has the local name, in
\* declared order
ConcreteCandidates(o, multiname) ==
    SelectSeq(multiname.nss,
              LAMBDA ns : /\ ns # AnyNs
                          /\ QName(ns, multiname.local) \in Names
                          /\ HasProperty(Heap, o, QName(ns, multiname.local)))

\* C19: resolve_multiname, for a namespace set with the wildcard and concrete
\* namespaces in any positions, returns the QName of the first concrete
\* candidate namespace under which the object has the property, whatever the
\* wildcard would match.
C19_ConcreteBeforeWildcard ==
    (/\ last.op = "resolve_multiname"
     /\ last.val.local # NoLocal
     /\ AnyNs \in Range(last.val.nss)
     /\ ConcreteCandidates(last.obj, last.val) # << >>)
        => last.ret = QName(Head(ConcreteCandidates(last.obj, last.val)), last.val.local)

\* C20: for two names with the same local name and different namespaces on
\* one object, set_property, init_property and delete_property on one of them
\* leave the property of the other (its presence and its value), what
\* get_property reads for it, and its enumerability as they were.
C20_NamespacesIndependent ==
    [][\A n \in LocalP, other \in LocalP :
         (/\ other # n /\ other.local = n.local
          /\ last'.op \in {"set_property", "init_property", "delete_property"}
          /\ last'.obj = "H" /\ last'.name = n)
            => /\ values'["H"][other] = values["H"][other]
               /\ GetProperty(Heap', "H", "H", other).ret = GetProperty(Heap, "H", "H", other).ret
               /\ PropertyIsEnumerable(Heap', "H", other) = PropertyIsEnumerable(Heap, "H", other)
               /\ SelectSeq(enumerants'["H"], LAMBDA e : e = other)
                      = SelectSeq(enumerants["H"], LAMBDA e : e = other)]_vars

\* public::p was deleted while ns1::p, initialised to V2 and enumerable, stays
C20_Witness ==
    /\ last.op = "delete_property" /\ last.obj = "H" /\ last.name = np
    /\ last.ret = BoolV(TRUE)
    /\ values["H"][np].kind = "Absent"
    /\ values["H"][np1].kind # "Absent" /\ values["H"][np1].value = Prim("V2")
    /\ PropertyIsEnumerable(Heap, "H", np1)

ChainOwns(o, name) ==
    \E x \in {o} \cup Range(ChainOf(o)) : HasOwnProperty(Heap, x, name)

\* C21: on the instance d, whose prototype chain d -> PD -> PB is finite and
\* ends in an object without prototype, every call of get_property,
\* set_property and resolve_multiname returns; the calls in progress are never
\* more than the objects of the chain; and get_property returns Undefined and
\* no error when no object of the chain owns the name.
C21_ChainWalksTerminate ==
    /\ [](stack # << >> => <>(stack = << >>))
    /\ [](Len(stack) <= Len(ChainOf("d")) + 1)
    /\ [][(/\ stack # << >> /\ stack' = << >>
           /\ stack[1].op = "get_property"
           /\ ~ChainOwns(stack[1].obj, stack[1].name))
             => (last'.ret = Undefined /\ last'.err = "")]_vars

\* get_property of a name nobody owns returned from the call on PB
C21_Witness ==
    /\ stack = << >>
    /\ last.op = "get_property" /\ last.obj = "d" /\ last.name = nq /\ last.id = 3
    /\ last.ret = Undefined /\ last.err = ""
    /\ ~ChainOwns("d", nq)

RECURSIVE FromRoot(_, _, _)
\* the traits called name that the first k objects of chain provide, the k-th
\* object first
FromRoot(chain, k, name) ==
    IF k = 0 THEN << >>
    ELSE GetProvidedTrait(chain[k], name) \o FromRoot(chain, k - 1, name)

\* C22: get_trait(name) returns, on a class constructor, the class traits of
\* its own class called name and nothing of another class; on an instance
\* prototype, no trait; on an instance, the instance traits called name of the
\* classes of its prototypes, those of the root-most prototype first and
\* those of the nearest prototype last.
C22_GetTraitSources ==
    last.op = "get_trait" =>
        LET o == last.obj
            c == ClassOf(o).class
        IN  CASE ClassOf(o).kind = "ClassConstructor" ->
                     /\ last.ret = SelectSeq(ClassTraits(c), LAMBDA tr : tr.name = last.name)
                     /\ \A tr \in Range(last.ret) :
                            \A k \in Classes \ {c} : tr \notin Range(ClassTraits(k))
              [] ClassOf(o).kind = "InstancePrototype" -> last.ret = << >>
              [] OTHER ->
                     /\ last.ret = FromRoot(ChainOf(o), Len(ChainOf(o)), last.name)
                     /\ \A tr \in Range(last.ret) : tr.name = last.name

\* g on the instance d: the getter of Base, then the setter of Derived
C22_Witness ==
    /\ last.op = "get_trait" /\ last.obj = "d" /\ last.name = ng
    /\ last.ret = <<InstanceTraits("Base")[2], InstanceTraits("Derived")[1]>>
    /\ last.ret[1].kind = "Getter" /\ last.ret[2].kind = "Setter"

\* C23: on a byte array, get, set, init, delete and has_own_property of a
\* public name with a numeric local name leave the base (property map,
\* enumerants, slots, methods) as it is, and the same operations with any
\* other name leave the byte storage as it is and do to the base what the
\* base operation does
BaseOutcome(op, o, name, v) ==
    CASE op = "get_property_local" -> GetPropertyLocal(Heap, o, o, name)
      [] op = "set_property_local" -> SetPropertyLocal(Heap, o, o, name, v)
      [] op = "init_property_local" -> InitPropertyLocal(Heap, o, o, name, v)
      [] op = "delete_property" -> DeleteProperty(Heap, o, name)
      [] OTHER -> OkV(Heap, BoolV(HasOwnProperty(Heap, o, name)))

C23_IndexNamesReachOnlyStorage ==
    [][last'.op \in ByteOps =>
          IF last'.name.ns = "public" /\ last'.name.local \in {"0", "2"}
          THEN UNCHANGED objectVars
          ELSE /\ UNCHANGED storage
               /\ Heap' = BaseOutcome(last'.op, last'.obj, last'.name, last'.val).h
               /\ last'.ret = BaseOutcome(last'.op, last'.obj, last'.name, last'.val).ret]_vars

\* a numeric name of another namespace was written to the base while the
\* storage holds bytes written under the public numeric names
C23_Witness ==
    /\ last.op = "set_property_local" /\ last.name = n0ns
    /\ values["H"][n0ns].kind # "Absent"
    /\ n0ns \in Range(enumerants["H"])
    /\ Len(storage) = 3 /\ storage[3] = 300 % 256
    /\ \A n \in Names \ {n0ns} : values["H"][n].kind = "Absent"

\* C24: get_property_local of a public numeric index at or beyond the length
\* of the storage yields a defined zero or sentinel value, not Undefined
C24_UnsetIndexReadsDefined ==
    (last.op = "get_property_local" /\ IsIndexName(last.name)
        /\ ParseUsize(last.name.local) >= last.id)
    => last.ret # Undefined

C27_TraitsNeverEnumerable ==
    \A o \in Objects, n \in Names :
        HasTrait(o, n) => ~PropertyIsEnumerable(Heap, o, n)

RECURSIVE NearestClass(_)
\* the class of o, or of the nearest object of its prototype chain that has one
NearestClass(o) ==
    IF AsClass(o) # NoClassName THEN AsClass(o)
    ELSE IF Proto(o) = NoObj THEN NoClassName
    ELSE NearestClass(Proto(o))

\* C26: every as_proto_class call returns, and it returns the class of the
\* object or of the nearest object of its prototype chain that has a class,
\* None only when no object of the chain has one
C26_AsProtoClassTerminates ==
    /\ [](stack # << >> => <>(stack = << >>))
    /\ [][(stack # << >> /\ stack' = << >>)
             => last'.ret = ClassValue(NearestClass(stack[1].obj))]_vars

StartOps == {"start_sound", "start_stream"}

\* C28: the manager never tracks more than MAX_SOUNDS instances; start_sound
\* and start_stream called while MAX_SOUNDS are tracked return None and start
\* nothing on the backend, and when the backend fails to start they return
\* None and leave the list as it is
C28_AtMostMaxSounds ==
    /\ [](Len(sounds) <= MAX_SOUNDS)
    /\ [][(last'.op \in StartOps /\ Len(sounds) = MAX_SOUNDS)
              => (last'.ret = NoHandle /\ UNCHANGED <<sounds, playing, issued>>)]_vars
    /\ [][(last'.op \in StartOps /\ last'.arg = "Err")
              => (last'.ret = NoHandle /\ UNCHANGED <<sounds, playing, issued>>)]_vars

\* start_stream returned None although the backend was ready to start, with
\* MAX_SOUNDS instances tracked, one of them a stream started before
C28_Witness ==
    /\ last.op = "start_stream" /\ last.arg = "MC1" /\ last.ret = NoHandle
    /\ Len(sounds) = MAX_SOUNDS
    /\ Cardinality(playing) = MAX_SOUNDS
    /\ sounds[MAX_SOUNDS].sound = NoSound

Reported(h) == \E i \in 1..Len(action_queue) : action_queue[i].instance = h

\* C29: update_sounds removes exactly the sounds the backend reports no
\* position for and keeps the others in their order; it queues one
\* onSoundComplete action for each removed sound with an AVM1 sound object,
\* and no other operation queues one; no started sound is reported twice, and
\* a sound that left the list unreported (stop_sound, stop_all_sounds and the
\* other stop operations) is never reported
C29_CompletionReportedOnce ==
    /\ [][last'.op = "update_sounds" =>
             /\ Instances(sounds') = Instances(sounds) \cap playing
             /\ \A i, j \in 1..Len(sounds') :
                    i < j => \E k, l \in 1..Len(sounds) :
                                 k < l /\ sounds[k] = sounds'[i] /\ sounds[l] = sounds'[j]
             /\ Len(sounds') = Cardinality(Instances(sounds'))
             /\ \A h \in Handles :
                    (Reported(h)' /\ ~Reported(h))
                        <=> \E k \in 1..Len(sounds) :
                                /\ sounds[k].instance = h /\ h \notin playing
                                /\ sounds[k].avm1_object # NoSoundObject
             /\ \A i \in 1..Len(action_queue') :
                    /\ action_queue'[i].name = "onSoundComplete"
                    /\ i <= Len(action_queue) => action_queue'[i] = action_queue[i]]_vars
    /\ [][last'.op # "update_sounds" => action_queue' = action_queue]_vars
    /\ [](\A i, j \in 1..Len(action_queue) :
              i # j => action_queue[i].instance # action_queue[j].instance)
    /\ \A h \in Handles :
           []((h <= issued /\ h \notin Instances(sounds) /\ ~Reported(h))
                  => [](~Reported(h)))

\* update_sounds reported the end of the second sound; the first sound, which
\* has an AVM1 sound object as well, was stopped before it and is not reported
C29_Witness ==
    /\ last.op = "update_sounds"
    /\ issued = 2
    /\ sounds = << >>
    /\ Len(action_queue) = 1 /\ action_queue[1].instance = 2
    /\ action_queue[1].object = "SO2"
    /\ 1 \notin playing

(***************************************************************************)
(* SpecSlots: the instance d reads and writes the names of its slot-backed *)
(* traits.  Base declares x in slot 1 and Derived declares y in slot 1 and *)
(* c in slot 2: Trait::from_abc_trait copies the slot id of each trait     *)
(* from its class as it stands.                                            *)
(***************************************************************************)
SlotNames == {nx, ny, nc}

NextSlots ==
    \/ \E n \in SlotNames : DoGetProperty("d", n)
    \/ \E n \in SlotNames, v \in PrimValues : DoSetProperty("d", n, v)
    \/ \E n \in SlotNames : DoInitProperty("d", n, Prim("V1"))
    \/ \E id \in 1..2 : DoGetSlot("d", id)

SpecSlots == Init /\ [][NextSlots]_vars

\* the value read through name on o, without installing anything
ReadThrough(h, o, name) == GetPropertyLocal(h, o, o, name).ret

(***************************************************************************)
(* SpecAny: the bare object H gets and loses the properties public::p and  *)
(* ns1::p in any order, and resolve_any is called for the local name p on  *)
(* H and for the local names p and x on the instance d.                    *)
(***************************************************************************)
DoResolveAny(o, l) ==
    \E ns \in ResolveAny(Heap, o, l) :
        Commit(OkV(Heap, Prim(ns)), "resolve_any", o, QName(AnyNs, l), 0, Undefined)

NextAny ==
    \/ \E n \in LocalP, v \in PrimValues : DoSetProperty("H", n, v)
    \/ \E n \in LocalP : DoInitProperty("H", n, Prim("V2"))
    \/ \E n \in LocalP : DoDeleteProperty("H", n)
    \/ \E n \in LocalP, b \in BOOLEAN : DoSetEnumerable("H", n, b)
    \/ \E o \in {"H", "d"}, l \in {"p", "x"} : DoResolveAny(o, l)

SpecAny == Init /\ [][NextAny]_vars

\* C31: a trait built by Trait::from_const is a Const trait: once it is
\* installed, its name reads the default value given to from_const, whatever
\* set_property wrote to it
C31_FromConstCannotBeOverridden ==
    values["CC"][nACTIVATE].kind # "Absent"
        => GetPropertyLocal(Heap, "CC", "CC", nACTIVATE).ret = Prim("activate")

\* C32: has_property(name) is true whenever the object or some object of its
\* prototype chain, at any depth, owns the name, as get_property finds it there
C32_HasPropertyWholeChain ==
    (last.op = "has_property"
        /\ (HasOwnProperty(Heap, last.obj, last.name) \/ ChainOwns(last.obj, last.name)))
    => last.ret = BoolV(TRUE)

\* C33: when O owns n as a non-virtual data property, set_property(O, n, v)
\* succeeds and a following get_property(O, n) returns v, whatever the
\* prototypes of O hold, a virtual setter for n included
C33_OwnDataWriteReadsBack ==
    [][\A o \in ChainObjects :
          (Step("set_property", o, np) /\ IsData(values[o][np]))
          => (last'.err = "" /\ GetProperty(Heap', o, o, np).ret = last'.val)]_vars

\* C34: two different names that are slot-backed on the same object never
\* share a slot id, and a step that installs or writes one name leaves the
\* value read through every other installed slot-backed name as it was
C34_SlotsAreDisjoint ==
    /\ [](\A o \in Objects, n, m \in Names :
              (n # m /\ values[o][n].kind = "Slot" /\ values[o][m].kind = "Slot")
                  => values[o][n].slot_id # values[o][m].slot_id)
    /\ [][\A n, m \in SlotNames :
              (n # m /\ last'.name = n /\ values["d"][m].kind = "Slot")
                  => ReadThrough(Heap', "d", m) = ReadThrough(Heap, "d", m)]_vars

\* C35: P.isPrototypeOf(V) is true exactly when P is reached from V by one or
\* more prototype links, and so agrees with V.has_prototype_in_chain(P, false)
\* for every pair of objects, V = P included
C35_IsPrototypeOfAgrees ==
    (last.op = "is_prototype_of" /\ last.val.t = "object")
    => /\ last.ret = BoolV(last.obj \in Range(ChainOf(last.val.v)))
       /\ last.ret = BoolV(HasPrototypeInChain(last.val.v, last.obj))

\* C36: resolve_any(local_name) is a function of the state of the object: the
\* namespace a call returns is the only one a call in that state can return,
\* also when the object owns the local name in two namespaces
C36_ResolveAnyIsAFunction ==
    last.op = "resolve_any"
        => \A ns \in ResolveAny(Heap, last.obj, last.name.local) : last.ret = Prim(ns)

\* the name has no entry on o and no trait of o provides it
FreshName(o, n) == values[o][n].kind = "Absent" /\ ~HasTrait(o, n)

\* C37: init_property on a name with no entry and no trait inserts a dynamic
\* property holding the value that is not enumerable: the enumerant list is
\* left as it was and get_enumerant_name returns the name at no index;
\* set_property on such a name makes it enumerable; init_property on a name
\* that has an entry leaves its enumerability as it was
C37_InitPropertyNotEnumerable ==
    [][\A n \in EnumNames :
          /\ (Step("init_property", "d", n) /\ FreshName("d", n))
                 => /\ values'["d"][n] = NewDynamicProperty(last'.val)
                    /\ enumerants' = enumerants
                    /\ ~PropertyIsEnumerable(Heap', "d", n)
                    /\ \A index \in EnumIndices : GetEnumerantName(Heap', "d", index) # n
          /\ (Step("set_property", "d", n) /\ FreshName("d", n))
                 => /\ values'["d"][n] = NewDynamicProperty(last'.val)
                    /\ PropertyIsEnumerable(Heap', "d", n)
                    /\ \E index \in EnumIndices : GetEnumerantName(Heap', "d", index) = n
          /\ (Step("init_property", "d", n) /\ values["d"][n].kind # "Absent")
                 => PropertyIsEnumerable(Heap', "d", n) = PropertyIsEnumerable(Heap, "d", n)]_vars

\* init_property created p on d, which had no entry for it: p is not in the
\* enumerant list, while q, which set_property created, is
C37_Witness ==
    /\ last.op = "init_property" /\ last.obj = "d" /\ last.name = np /\ ~last.had
    /\ values["d"][np] = NewDynamicProperty(Prim("V1"))
    /\ enumerants["d"] = <<nq>>

====
